---- MODULE Spec2Model ----
(***************************************************************************)
(* A model of the langx front end: the AST node types with their accept    *)
(* methods and resolvers, the raw traversal VisitFunc and the typed        *)
(* traversal Visit.                                                        *)
(***************************************************************************)
EXTENDS Integers, Sequences, FiniteSets, TLC

VARIABLES
    src,      \* the tokens of the source text given to ParseString
    phase,    \* "new" before ParseString is called, "parsed" after it returned,
              \* "called" after a Decl() or Decls() call on the tree
    ast,      \* the *AST ParseString returned
    err,      \* the error ParseString returned: "nil" or "parse error"
    report,   \* where that error is and what it expected there
    mode,     \* "idle", "typed" (Visit) or "raw" (VisitFunc with a visitor function)
    stack,    \* the active accept closures, outermost first: [path, i, n]
    ret,      \* the error value travelling back to the top closure, "none" while descending
    trace,    \* the visitor invocations so far, in order
    fault,    \* "none", or the panic that ended the traversal
    prunes,   \* how many times a Visitor method has returned TerminateRecursion
    call,     \* the Decl() or Decls() call made on the tree, with its outcome
    chars,    \* the characters of the text given to the lexer
    cursor,   \* where in chars the lexer stands (the offset, plus one)
    tokens,   \* the tokens the lexer has given so far
    lexer,    \* "idle", "lexing", "eof" after the last token, "error"
    other     \* a second traversal of the tree, while it does not run

\* What the parser and the traversals leave alone.
elsewhere == <<call, chars, cursor, tokens, lexer, other>>

vars == <<src, phase, ast, err, report, mode, stack, ret, trace, fault, prunes, elsewhere>>

\* ---------------------------------------------------------------- bounds

MaxPrunes == 1

\* ---------------------------------------------------------------- values

\* A nil pointer, whatever its static type: the slot it sits in names the type.
Nil == [kind |-> "nil"]

IsNil(n) == n.kind = "nil"

\* The two error values a visitor may return besides TerminateRecursion.
Errors == {"E1", "E2"}

TerminateRecursion == "no recurse"

\* One argument of a VisitFunc call made by an accept closure: the field it is
\* read from, its index in a list field, the static type of the expression
\* converted to Node, and the value.
Slot(f, k, t, n) == [field |-> f, idx |-> k, type |-> t, node |-> n]

ListSlots(f, t, s) == [k \in 1..Len(s) |-> Slot(f, k, t, s[k])]

\* What an accept method does: the form of the node it hands to the visitor
\* function, and what its closure does when called with a nil error: the
\* VisitFunc calls it makes in order, or a panic before the first of them.
Accept(h, s) == [hands |-> h, panic |-> FALSE, slots |-> s]

AcceptPanic(h) == [hands |-> h, panic |-> TRUE, slots |-> <<>>]

\* ---------------------------------------------------------------- resolvers

\* The outcome of a resolver whose switch reaches default: panic(...).
Panicked == [kind |-> "panic"]

RootDecl_Decl(r) ==
    IF ~IsNil(r.Class) THEN r.Class
    ELSE IF ~IsNil(r.Import) THEN r.Import
    ELSE IF ~IsNil(r.Enum) THEN r.Enum
    ELSE IF ~IsNil(r.Var) THEN r.Var
    ELSE IF ~IsNil(r.Func) THEN r.Func
    ELSE Panicked

EnumMember_Decl(e) ==
    IF ~IsNil(e.CaseDecl) THEN e.CaseDecl
    ELSE IF ~IsNil(e.VarDecl) THEN e.VarDecl
    ELSE IF ~IsNil(e.FuncDecl) THEN e.FuncDecl
    ELSE IF ~IsNil(e.ClassDecl) THEN e.ClassDecl
    ELSE IF ~IsNil(e.InitialiserDecl) THEN e.InitialiserDecl
    ELSE Panicked

ClassMember_Decl(c) ==
    IF ~IsNil(c.VarDecl) THEN c.VarDecl
    ELSE IF ~IsNil(c.FuncDecl) THEN c.FuncDecl
    ELSE IF ~IsNil(c.ClassDecl) THEN c.ClassDecl
    ELSE IF ~IsNil(c.EnumDecl) THEN c.EnumDecl
    ELSE IF ~IsNil(c.InitialiserDecl) THEN c.InitialiserDecl
    ELSE Panicked

\* VisitFunc(x.Decl(), visitor): the resolver runs first and may panic; its
\* result is an interface value holding the arm's pointer.
DeclCall(h, d) ==
    IF d.kind = "panic" THEN AcceptPanic(h)
    ELSE Accept(h, <<Slot("Decl", 0, d.kind, d)>>)

\* ---------------------------------------------------------------- accept methods

AST_accept(a) == Accept("*AST", ListSlots("Declarations", "RootDecl", a.Declarations))

RootDecl_accept(r) == DeclCall("*RootDecl", RootDecl_Decl(r))

ImportDecl_accept(i) == Accept("*ImportDecl", <<>>)

EnumDecl_accept(e) ==
    Accept("*EnumDecl",
           <<Slot("Type", 0, "TypeDecl", e.Type)>>
           \o ListSlots("Members", "EnumMember", e.Members))

EnumMember_accept(e) == DeclCall("*EnumMember", EnumMember_Decl(e))

CaseDecl_accept(c) == Accept("*CaseDecl", <<Slot("Type", 0, "TypeDecl", c.Type)>>)

ClassDecl_accept(c) ==
    Accept("*ClassDecl",
           <<Slot("Type", 0, "TypeDecl", c.Type)>>
           \o ListSlots("Members", "ClassMember", c.Members))

ClassMember_accept(c) == DeclCall("*ClassMember", ClassMember_Decl(c))

InitialiserDecl_accept(i) ==
    Accept("*InitialiserDecl",
           ListSlots("Parameters", "Parameters", i.Parameters)
           \o <<Slot("Body", 0, "Block", i.Body)>>)

TypeDecl_accept(t) ==
    Accept("TypeDecl", ListSlots("TypeParameter", "TypeParamDecl", t.TypeParameter))

TypeParamDecl_accept(t) ==
    Accept("TypeParamDecl", ListSlots("Constraints", "Reference", t.Constraints))

Parameters_accept(p) == Accept("Parameters", <<Slot("Type", 0, "Reference", p.Type)>>)

VarDecl_accept(v) == Accept("*VarDecl", ListSlots("Vars", "VarDeclAsgn", v.Vars))

VarDeclAsgn_accept(v) ==
    Accept("VarDeclAsgn",
           <<Slot("Type", 0, "Reference", v.Type), Slot("Default", 0, "Expr", v.Default)>>)

Stmt_accept(s) ==
    IF ~IsNil(s.Return) THEN Accept("Stmt", <<Slot("Return", 0, "ReturnStmt", s.Return)>>)
    ELSE IF ~IsNil(s.If) THEN Accept("Stmt", <<Slot("If", 0, "IfStmt", s.If)>>)
    ELSE IF ~IsNil(s.For) THEN Accept("Stmt", <<Slot("For", 0, "ForStmt", s.For)>>)
    ELSE IF ~IsNil(s.Switch) THEN Accept("Stmt", <<Slot("Switch", 0, "SwitchStmt", s.Switch)>>)
    ELSE IF ~IsNil(s.Block) THEN Accept("Stmt", <<Slot("Block", 0, "Block", s.Block)>>)
    ELSE IF ~IsNil(s.VarDecl) THEN Accept("Stmt", <<Slot("VarDecl", 0, "VarDecl", s.VarDecl)>>)
    ELSE IF ~IsNil(s.FuncDecl) THEN Accept("Stmt", <<Slot("FuncDecl", 0, "FuncDecl", s.FuncDecl)>>)
    ELSE IF ~IsNil(s.ClassDecl) THEN Accept("Stmt", <<Slot("ClassDecl", 0, "ClassDecl", s.ClassDecl)>>)
    ELSE IF ~IsNil(s.EnumDecl) THEN Accept("Stmt", <<Slot("EnumDecl", 0, "EnumDecl", s.EnumDecl)>>)
    ELSE IF ~IsNil(s.Expression) THEN Accept("Stmt", <<Slot("Expression", 0, "Expr", s.Expression)>>)
    ELSE AcceptPanic("Stmt")

Block_accept(b) == Accept("Block", ListSlots("Statements", "Stmt", b.Statements))

ForStmt_accept(i) ==
    Accept("ForStmt",
           <<Slot("Target", 0, "Reference", i.Target),
             Slot("Source", 0, "Expr", i.Source),
             Slot("Body", 0, "Block", i.Body)>>)

\* An IfStmt.accept whose closure visits the else-block before the then-block.
IfStmt_accept_elseFirst(i) ==
    Accept("IfStmt",
           <<Slot("Condition", 0, "Expr", i.Condition),
             Slot("Else", 0, "Block", i.Else),
             Slot("Main", 0, "Block", i.Main)>>)

IfStmt_accept(i) ==
    Accept("IfStmt",
           <<Slot("Condition", 0, "Expr", i.Condition),
             Slot("Main", 0, "Block", i.Main),
             Slot("Else", 0, "Block", i.Else)>>)

SwitchStmt_accept(s) ==
    Accept("SwitchStmt",
           <<Slot("Target", 0, "Expr", s.Target)>> \o ListSlots("Cases", "CaseStmt", s.Cases))

CaseStmt_accept(c) ==
    Accept("CaseStmt",
           <<Slot("Case", 0, "CaseSelect", c.Case)>> \o ListSlots("Body", "Stmt", c.Body))

CaseSelect_accept(c) ==
    Accept("CaseSelect",
           <<Slot("EnumCase", 0, "EnumCase", c.EnumCase),
             Slot("ExprCase", 0, "Expr", c.ExprCase)>>)

EnumCase_accept(e) == Accept("EnumCase", <<>>)

ReturnStmt_accept(r) == Accept("ReturnStmt", <<Slot("Value", 0, "Expr", r.Value)>>)

FuncDecl_accept(f) ==
    Accept("*FuncDecl",
           ListSlots("Parameters", "Parameters", f.Parameters)
           \o <<Slot("Return", 0, "Reference", f.Return), Slot("Body", 0, "Block", f.Body)>>)

\* Expression-level nodes: their accept methods are in a file of the package
\* that is not part of the sources at hand. They are handed to the visitor in
\* the form the Visitor interface takes them, and are leaves here.
Expr_accept(e) == Accept("*Expr", <<>>)

Reference_accept(r) == Accept("*Reference", <<>>)

\* node.accept(visit) through the Node interface: the method of the dynamic type.
accept(n) ==
    CASE n.kind = "AST" -> AST_accept(n)
      [] n.kind = "RootDecl" -> RootDecl_accept(n)
      [] n.kind = "ImportDecl" -> ImportDecl_accept(n)
      [] n.kind = "EnumDecl" -> EnumDecl_accept(n)
      [] n.kind = "EnumMember" -> EnumMember_accept(n)
      [] n.kind = "CaseDecl" -> CaseDecl_accept(n)
      [] n.kind = "ClassDecl" -> ClassDecl_accept(n)
      [] n.kind = "ClassMember" -> ClassMember_accept(n)
      [] n.kind = "InitialiserDecl" -> InitialiserDecl_accept(n)
      [] n.kind = "TypeDecl" -> TypeDecl_accept(n)
      [] n.kind = "TypeParamDecl" -> TypeParamDecl_accept(n)
      [] n.kind = "Parameters" -> Parameters_accept(n)
      [] n.kind = "VarDecl" -> VarDecl_accept(n)
      [] n.kind = "VarDeclAsgn" -> VarDeclAsgn_accept(n)
      [] n.kind = "Stmt" -> Stmt_accept(n)
      [] n.kind = "Block" -> Block_accept(n)
      [] n.kind = "ForStmt" -> ForStmt_accept(n)
      [] n.kind = "IfStmt" -> IfStmt_accept(n)
      [] n.kind = "SwitchStmt" -> SwitchStmt_accept(n)
      [] n.kind = "CaseStmt" -> CaseStmt_accept(n)
      [] n.kind = "CaseSelect" -> CaseSelect_accept(n)
      [] n.kind = "EnumCase" -> EnumCase_accept(n)
      [] n.kind = "ReturnStmt" -> ReturnStmt_accept(n)
      [] n.kind = "FuncDecl" -> FuncDecl_accept(n)
      [] n.kind = "Expr" -> Expr_accept(n)
      [] n.kind = "Reference" -> Reference_accept(n)

\* The receiver of each type's accept method: a value receiver called through
\* a nil pointer panics before the method body runs; a pointer receiver runs
\* the body with a nil receiver.
ValueReceivers ==
    {"TypeDecl", "TypeParamDecl", "Parameters", "VarDeclAsgn", "Stmt", "Block",
     "ForStmt", "IfStmt", "SwitchStmt", "CaseStmt", "CaseSelect", "EnumCase",
     "ReturnStmt"}

PointerReceivers ==
    {"AST", "RootDecl", "ImportDecl", "EnumDecl", "EnumMember", "CaseDecl",
     "ClassDecl", "ClassMember", "InitialiserDecl", "VarDecl", "FuncDecl"}

\* Expr and Reference: absent ones are skipped without a visitor call.
SkippedWhenNil == {"Expr", "Reference"}

\* ---------------------------------------------------------------- tokens

\* The words of the lexer's Modifier and Keyword rules.
Modifier == {"pub", "override", "static"}

Keyword ==
    {"in", "switch", "case", "default", "if", "enum", "alias", "let", "fn",
     "break", "continue", "for", "throws", "import", "new"}

Operator ==
    {"->", "%=", ">=", "<=", "^=", "&&", "||", "==", "!=", "+=", "-=", "*=", "/=",
     "-", "=", "+", "*", "/", "<", ">", "%", "^", "!"}

\* (the back quote of the rule is left out: TLA+ strings cannot hold it)
Punct ==
    {"]", "[", "~", "(", ")", "@", "#", "$", "{", "}", ":", ";", "?", ".", ","}

\* The number and string literals the inputs are written with.
NumberTexts == {"1", "2"}

StringTexts == {"'m'"}

\* The symbol of a token, by the first lexer rule its text matches; any other
\* word is an Ident (so are class, init, return and else).
TokenType(text) ==
    IF text \in Modifier THEN "Modifier"
    ELSE IF text \in Keyword THEN "Keyword"
    ELSE IF text \in NumberTexts THEN "Number"
    ELSE IF text \in StringTexts THEN "String"
    ELSE IF text \in Operator THEN "Operator"
    ELSE IF text \in Punct THEN "Punct"
    ELSE "Ident"

EOF == "<EOF>"

\* ctx.Peek(0) with the cursor at i.
Peek(ts, i) == IF i <= Len(ts) THEN ts[i] ELSE EOF

\* ---------------------------------------------------------------- lexer

\* The characters of a text are one-character strings; Text joins them.
RECURSIVE Text(_)
Text(cs) == IF cs = <<>> THEN "" ELSE Head(cs) \o Text(Tail(cs))

\* [[:alpha:]], \d and \w
Letter ==
    {"a", "b", "c", "d", "e", "f", "g", "h", "i", "j", "k", "l", "m", "n", "o", "p",
     "q", "r", "s", "t", "u", "v", "w", "x", "y", "z",
     "A", "B", "C", "D", "E", "F", "G", "H", "I", "J", "K", "L", "M", "N", "O", "P",
     "Q", "R", "S", "T", "U", "V", "W", "X", "Y", "Z"}

Digit == {"0", "1", "2", "3", "4", "5", "6", "7", "8", "9"}

Word == Letter \cup Digit \cup {"_"}

\* The character at i, "" past the end of the text.
At(t, i) == IF i \in DOMAIN t THEN t[i] ELSE ""

\* The text goes on at i with the characters of the string w.
Has(t, i, w) == i + Len(w) - 1 <= Len(t) /\ Text(SubSeq(t, i, i + Len(w) - 1)) = w

\* The length of the longest run of characters of S from i on, and of
\* characters that are not in S.
RunIn(t, i, S) ==
    CHOOSE n \in 0..Len(t) + 1 - i :
        /\ \A k \in 0..n - 1 : t[i + k] \in S
        /\ At(t, i + n) \notin S

RunNotIn(t, i, S) ==
    CHOOSE n \in 0..Len(t) + 1 - i :
        /\ \A k \in 0..n - 1 : t[i + k] \notin S
        /\ (i + n > Len(t) \/ t[i + n] \in S)

\* \b after a word character: the next character is none of a word.
WordEnd(t, j) == At(t, j) \notin Word

\* What a rule gives at a position: the length of its match, or NoRule.
NoRule == -1

\* The alternatives of a rule, in the order the rule lists them.
ModifierWords == <<"pub", "override", "static">>

KeywordWords ==
    <<"in", "switch", "case", "default", "if", "enum", "alias", "let", "fn",
      "break", "continue", "for", "throws", "import", "new">>

TwoCharOperators ==
    <<"->", "%=", ">=", "<=", "^=", "&&", "||", "==", "!=", "+=", "-=", "*=", "/=">>

OneCharOperators == {"-", "=", "+", "*", "/", "<", ">", "%", "^", "!"}

\* \b(w1|w2|...)\b: the first word of the list the text goes on with and
\* that a word boundary follows.
FirstWord(ws, t, i) ==
    LET hits == {k \in DOMAIN ws : Has(t, i, ws[k]) /\ WordEnd(t, i + Len(ws[k]))}
    IN IF hits = {} THEN NoRule
       ELSE Len(ws[CHOOSE k \in hits : \A h \in hits : k <= h])

\* comment = //.*|(?s:/\*.*?\*/)
comment_match(t, i) ==
    IF Has(t, i, "//") THEN 2 + RunNotIn(t, i + 2, {"\n"})
    ELSE IF Has(t, i, "/*") /\ \E j \in i + 2..Len(t) : Has(t, j, "*/")
    THEN (CHOOSE j \in i + 2..Len(t) :
              /\ Has(t, j, "*/")
              /\ \A h \in i + 2..j - 1 : ~Has(t, h, "*/")) + 2 - i
    ELSE NoRule

\* backslash = \\
backslash_match(t, i) == IF At(t, i) = "\\" THEN 1 ELSE NoRule

\* whitespace = [\r\t ]+
whitespace_star(t, i) == RunIn(t, i, {"\r", "\t", " "})

whitespace_match(t, i) ==
    IF RunIn(t, i, {"\r", "\t", " "}) >= 1 THEN RunIn(t, i, {"\r", "\t", " "}) ELSE NoRule

\* Modifier = \b(pub|override|static)\b
Modifier_match(t, i) == FirstWord(ModifierWords, t, i)

\* Keyword = \b(in|switch|...|new)\b
Keyword_unbounded(t, i) ==
    LET hits == {k \in DOMAIN KeywordWords : Has(t, i, KeywordWords[k])}
    IN IF hits = {} THEN NoRule
       ELSE Len(KeywordWords[CHOOSE k \in hits : \A h \in hits : k <= h])

Keyword_match(t, i) == FirstWord(KeywordWords, t, i)

\* Ident = \b([[:alpha:]_]\w*)\b
Ident_match(t, i) ==
    IF At(t, i) \in Letter \cup {"_"} /\ WordEnd(t, i + RunIn(t, i, Word))
    THEN RunIn(t, i, Word)
    ELSE NoRule

\* Number = \b(\d+(\.\d+)?)\b: the digits with a fraction if a word boundary
\* follows it, else the digits alone if a word boundary follows them.
Number_match(t, i) ==
    LET n == RunIn(t, i, Digit)
        m == RunIn(t, i + n + 1, Digit)
    IN IF n = 0 THEN NoRule
       ELSE IF At(t, i + n) = "." /\ m >= 1 /\ WordEnd(t, i + n + 1 + m) THEN n + 1 + m
       ELSE IF WordEnd(t, i + n) THEN n
       ELSE NoRule

\* (\\.|[^"])*" from j on: where the closing quote is, 0 if there is none.
\* An escape is tried before a single character, a further character before
\* the closing quote.
RECURSIVE Quoted(_, _)
Quoted(t, j) ==
    IF j > Len(t) THEN 0
    ELSE LET escape == IF t[j] = "\\" /\ j + 1 <= Len(t) /\ t[j + 1] # "\n"
                       THEN Quoted(t, j + 2) ELSE 0
             single == IF t[j] # "\"" THEN Quoted(t, j + 1) ELSE 0
         IN IF escape # 0 THEN escape
            ELSE IF single # 0 THEN single
            ELSE IF t[j] = "\"" THEN j
            ELSE 0

\* String = "(\\.|[^"])*"|'[^']*'
String_match(t, i) ==
    IF At(t, i) = "\"" /\ Quoted(t, i + 1) # 0 THEN Quoted(t, i + 1) + 1 - i
    ELSE IF At(t, i) = "'" /\ At(t, i + 1 + RunNotIn(t, i + 1, {"'"})) = "'"
    THEN RunNotIn(t, i + 1, {"'"}) + 2
    ELSE NoRule

\* Newline = \n
Newline_match(t, i) == IF At(t, i) = "\n" THEN 1 ELSE NoRule

\* Operator = ->|%=|>=|<=|\^=|&&|\|\||==|!=|\+=|-=|\*=|/=|[-=+*/<>%^!]
Operator_classFirst(t, i) ==
    IF At(t, i) \in OneCharOperators THEN 1
    ELSE IF \E k \in DOMAIN TwoCharOperators : Has(t, i, TwoCharOperators[k]) THEN 2
    ELSE NoRule

Operator_match(t, i) ==
    IF \E k \in DOMAIN TwoCharOperators : Has(t, i, TwoCharOperators[k]) THEN 2
    ELSE IF At(t, i) \in OneCharOperators THEN 1
    ELSE NoRule

\* Punct = a character of the class
Punct_match(t, i) == IF At(t, i) \in Punct THEN 1 ELSE NoRule

\* The rules in the order the definition lists them; those with a lower-case
\* name give no token.
Rules ==
    <<"comment", "backslash", "whitespace", "Modifier", "Keyword", "Ident", "Number",
      "String", "Newline", "Operator", "Punct">>

Elided == {"comment", "backslash", "whitespace"}

RuleMatch(r, t, i) ==
    CASE r = "comment" -> comment_match(t, i)
      [] r = "backslash" -> backslash_match(t, i)
      [] r = "whitespace" -> whitespace_match(t, i)
      [] r = "Modifier" -> Modifier_match(t, i)
      [] r = "Keyword" -> Keyword_match(t, i)
      [] r = "Ident" -> Ident_match(t, i)
      [] r = "Number" -> Number_match(t, i)
      [] r = "String" -> String_match(t, i)
      [] r = "Newline" -> Newline_match(t, i)
      [] r = "Operator" -> Operator_match(t, i)
      [] r = "Punct" -> Punct_match(t, i)

\* The rule that wins at i: the first of the list that matches there.
Winner(t, i) ==
    LET hits == {k \in DOMAIN Rules : RuleMatch(Rules[k], t, i) # NoRule}
    IN IF hits = {} THEN 0 ELSE CHOOSE k \in hits : \A h \in hits : k <= h

Token(type, value, offset) == [type |-> type, value |-> value, offset |-> offset]

\* ---------------------------------------------------------------- grammar

\* The grammar notation of the struct tags.
Lit(s) == [op |-> "lit", s |-> s]                 \* "x"
Tok(t) == [op |-> "tok", t |-> t]                 \* Ident, String, Modifier
Struct(t) == [op |-> "struct", t |-> t]           \* @@ (the field's struct type)
Cap(f, n) == [op |-> "cap", f |-> f, n |-> n]    \* @... into field f
Sq(ns) == [op |-> "seq", ns |-> ns]              \* a b c
Alt(ns) == [op |-> "alt", ns |-> ns]              \* a | b | c
Opt(n) == [op |-> "opt", n |-> n]                 \* a?
Rep(n) == [op |-> "rep", n |-> n]                 \* a*

\* @@ ( sep @@ )* into one list field: two elements of the enclosing sequence.
ListOf(f, t, sep) == <<Cap(f, Struct(t)), Rep(Sq(<<Lit(sep), Cap(f, Struct(t))>>))>>

AST_grammar == Rep(Cap("Declarations", Struct("RootDecl")))

\* A RootDecl whose Var alternative takes its ";" as optional.
RootDecl_grammar_optionalTerminator ==
    Sq(<<Rep(Cap("Modifiers", Tok("Modifier"))),
          Alt(<<Sq(<<Cap("Class", Struct("ClassDecl")), Opt(Lit(";"))>>),
                Sq(<<Cap("Import", Struct("ImportDecl")), Opt(Lit(";"))>>),
                Sq(<<Cap("Enum", Struct("EnumDecl")), Opt(Lit(";"))>>),
                Sq(<<Cap("Var", Struct("VarDecl")), Opt(Lit(";"))>>),
                Sq(<<Cap("Func", Struct("FuncDecl")), Opt(Lit(";"))>>)>>)>>)

\* A RootDecl without its Modifiers field.
RootDecl_grammar_noModifiers ==
    Alt(<<Sq(<<Cap("Class", Struct("ClassDecl")), Opt(Lit(";"))>>),
          Sq(<<Cap("Import", Struct("ImportDecl")), Opt(Lit(";"))>>),
          Sq(<<Cap("Enum", Struct("EnumDecl")), Opt(Lit(";"))>>),
          Sq(<<Cap("Var", Struct("VarDecl")), Lit(";")>>),
          Sq(<<Cap("Func", Struct("FuncDecl")), Opt(Lit(";"))>>)>>)

RootDecl_grammar ==
    Sq(<<Rep(Cap("Modifiers", Tok("Modifier"))),
          Alt(<<Sq(<<Cap("Class", Struct("ClassDecl")), Opt(Lit(";"))>>),
                Sq(<<Cap("Import", Struct("ImportDecl")), Opt(Lit(";"))>>),
                Sq(<<Cap("Enum", Struct("EnumDecl")), Opt(Lit(";"))>>),
                Sq(<<Cap("Var", Struct("VarDecl")), Lit(";")>>),
                Sq(<<Cap("Func", Struct("FuncDecl")), Opt(Lit(";"))>>)>>)>>)

ImportDecl_grammar ==
    Sq(<<Lit("import"), Opt(Cap("Alias", Tok("Ident"))), Cap("Import", Tok("String"))>>)

\* An enum body whose tag lacks the optional ";" before "}".
EnumDecl_grammar_noTrailing ==
    Sq(<<Lit("enum"), Cap("Type", Struct("TypeDecl")), Lit("{"),
          Opt(Sq(ListOf("Members", "EnumMember", ";"))),
          Lit("}")>>)

EnumDecl_grammar ==
    Sq(<<Lit("enum"), Cap("Type", Struct("TypeDecl")), Lit("{"),
          Opt(Sq(ListOf("Members", "EnumMember", ";") \o <<Opt(Lit(";"))>>)),
          Lit("}")>>)

EnumMember_grammar ==
    Sq(<<Rep(Cap("Modifiers", Tok("Modifier"))),
          Alt(<<Cap("CaseDecl", Struct("CaseDecl")),
                Cap("VarDecl", Struct("VarDecl")),
                Cap("FuncDecl", Struct("FuncDecl")),
                Cap("ClassDecl", Struct("ClassDecl")),
                Cap("EnumDecl", Struct("EnumDecl")),
                Cap("InitialiserDecl", Struct("InitialiserDecl"))>>)>>)

CaseDecl_grammar ==
    Sq(<<Lit("case"), Cap("Name", Tok("Ident")),
          Opt(Sq(<<Lit("("), Cap("Type", Struct("TypeDecl")), Lit(")")>>))>>)

ClassDecl_grammar ==
    Sq(<<Lit("class"), Cap("Type", Struct("TypeDecl")), Lit("{"),
          Opt(Sq(ListOf("Members", "ClassMember", ";") \o <<Opt(Lit(";"))>>)),
          Lit("}")>>)

ClassMember_grammar ==
    Sq(<<Rep(Cap("Modifiers", Tok("Modifier"))),
          Alt(<<Cap("VarDecl", Struct("VarDecl")),
                Cap("FuncDecl", Struct("FuncDecl")),
                Cap("ClassDecl", Struct("ClassDecl")),
                Cap("EnumDecl", Struct("EnumDecl")),
                Cap("InitialiserDecl", Struct("InitialiserDecl"))>>)>>)

InitialiserDecl_grammar ==
    Sq(<<Lit("init"), Lit("("), Opt(Sq(ListOf("Parameters", "Parameters", ","))),
          Opt(Lit(",")), Lit(")"),
          Opt(Cap("Throws", Lit("throws"))),
          Cap("Body", Struct("Block"))>>)

TypeDecl_grammar ==
    Sq(<<Cap("Type", Tok("Ident")),
          Opt(Sq(<<Lit("<")>> \o ListOf("TypeParameter", "TypeParamDecl", ",")
                 \o <<Opt(Lit(",")), Lit(">")>>))>>)

TypeParamDecl_grammar ==
    Sq(<<Cap("Name", Tok("Ident")),
          Opt(Sq(<<Lit(":")>> \o ListOf("Constraints", "Reference", ",")))>>)

Parameters_grammar ==
    Sq(<<Cap("Names", Tok("Ident")),
          Rep(Sq(<<Lit(","), Cap("Names", Tok("Ident"))>>)),
          Lit(":"), Cap("Type", Struct("Reference"))>>)

VarDecl_grammar == Sq(<<Lit("let")>> \o ListOf("Vars", "VarDeclAsgn", ","))

VarDeclAsgn_grammar ==
    Sq(<<Cap("Name", Tok("Ident")),
          Opt(Sq(<<Lit(":"), Cap("Type", Struct("Reference"))>>)),
          Opt(Sq(<<Lit("="), Cap("Default", Struct("Expr"))>>))>>)

Stmt_grammar ==
    Alt(<<Cap("Return", Struct("ReturnStmt")),
          Cap("If", Struct("IfStmt")),
          Cap("For", Struct("ForStmt")),
          Cap("Switch", Struct("SwitchStmt")),
          Cap("Block", Struct("Block")),
          Cap("VarDecl", Struct("VarDecl")),
          Cap("FuncDecl", Struct("FuncDecl")),
          Cap("ClassDecl", Struct("ClassDecl")),
          Cap("EnumDecl", Struct("EnumDecl")),
          Cap("Expression", Struct("Expr"))>>)

Block_grammar ==
    Sq(<<Lit("{"),
          Opt(Sq(ListOf("Statements", "Stmt", ";") \o <<Opt(Lit(";"))>>)),
          Lit("}")>>)

ForStmt_grammar ==
    Sq(<<Lit("for"), Cap("Target", Struct("Reference")),
          Lit("in"), Cap("Source", Struct("Expr")),
          Cap("Body", Struct("Block"))>>)

IfStmt_grammar ==
    Sq(<<Lit("if"), Cap("Condition", Struct("Expr")),
          Cap("Main", Struct("Block")),
          Opt(Sq(<<Lit("else"), Cap("Else", Struct("Block"))>>))>>)

SwitchStmt_grammar ==
    Sq(<<Lit("switch"), Cap("Target", Struct("Expr")), Lit("{"),
          Rep(Cap("Cases", Struct("CaseStmt"))), Lit("}")>>)

\* A CaseStmt tag that matches "default" without capturing it.
CaseStmt_grammar_uncaptured ==
    Sq(<<Alt(<<Lit("default"),
                Sq(<<Lit("case"), Cap("Case", Struct("CaseSelect"))>>)>>),
          Lit(":"),
          Opt(Sq(ListOf("Body", "Stmt", ";") \o <<Opt(Lit(";"))>>))>>)

CaseStmt_grammar ==
    Sq(<<Alt(<<Cap("Default", Lit("default")),
                Sq(<<Lit("case"), Cap("Case", Struct("CaseSelect"))>>)>>),
          Lit(":"),
          Opt(Sq(ListOf("Body", "Stmt", ";") \o <<Opt(Lit(";"))>>))>>)

CaseSelect_grammar ==
    Alt(<<Cap("EnumCase", Struct("EnumCase")), Cap("ExprCase", Struct("Expr"))>>)

EnumCase_grammar ==
    Sq(<<Lit("."), Cap("Case", Tok("Ident")),
          Opt(Sq(<<Lit("("), Cap("Var", Tok("Ident")), Lit(")")>>))>>)

ReturnStmt_grammar == Sq(<<Lit("return"), Opt(Cap("Value", Struct("Expr")))>>)

FuncDecl_grammar ==
    Sq(<<Lit("fn"), Cap("Name", Tok("Ident")), Lit("("),
          Opt(Sq(ListOf("Parameters", "Parameters", ","))),
          Opt(Lit(",")), Lit(")"),
          Opt(Cap("Throws", Lit("throws"))),
          Opt(Sq(<<Lit(":"), Cap("Return", Struct("Reference"))>>)),
          Cap("Body", Struct("Block"))>>)

\* Expressions and references, as far as the inputs use them: a one-token
\* terminal, and a dotted name.
Expr_grammar ==
    Cap("Terminal", Alt(<<Tok("Number"), Tok("String"), Tok("Ident")>>))

Reference_grammar ==
    Sq(<<Cap("Name", Tok("Ident")),
          Rep(Sq(<<Lit("."), Cap("Next", Tok("Ident"))>>))>>)

Grammar(t) ==
    CASE t = "AST" -> AST_grammar
      [] t = "RootDecl" -> RootDecl_grammar
      [] t = "ImportDecl" -> ImportDecl_grammar
      [] t = "EnumDecl" -> EnumDecl_grammar
      [] t = "EnumMember" -> EnumMember_grammar
      [] t = "CaseDecl" -> CaseDecl_grammar
      [] t = "ClassDecl" -> ClassDecl_grammar
      [] t = "ClassMember" -> ClassMember_grammar
      [] t = "InitialiserDecl" -> InitialiserDecl_grammar
      [] t = "TypeDecl" -> TypeDecl_grammar
      [] t = "TypeParamDecl" -> TypeParamDecl_grammar
      [] t = "Parameters" -> Parameters_grammar
      [] t = "VarDecl" -> VarDecl_grammar
      [] t = "VarDeclAsgn" -> VarDeclAsgn_grammar
      [] t = "Stmt" -> Stmt_grammar
      [] t = "Block" -> Block_grammar
      [] t = "ForStmt" -> ForStmt_grammar
      [] t = "IfStmt" -> IfStmt_grammar
      [] t = "SwitchStmt" -> SwitchStmt_grammar
      [] t = "CaseStmt" -> CaseStmt_grammar
      [] t = "CaseSelect" -> CaseSelect_grammar
      [] t = "EnumCase" -> EnumCase_grammar
      [] t = "ReturnStmt" -> ReturnStmt_grammar
      [] t = "FuncDecl" -> FuncDecl_grammar
      [] t = "Expr" -> Expr_grammar
      [] t = "Reference" -> Reference_grammar

\* The zero value of each struct: nil pointers and slices, "", false.
Zero(t) ==
    CASE t = "AST" -> [kind |-> t, Declarations |-> <<>>]
      [] t = "RootDecl" ->
            [kind |-> t, Modifiers |-> <<>>, Class |-> Nil, Import |-> Nil,
             Enum |-> Nil, Var |-> Nil, Func |-> Nil]
      [] t = "ImportDecl" -> [kind |-> t, Alias |-> "", Import |-> ""]
      [] t = "EnumDecl" -> [kind |-> t, Type |-> Nil, Members |-> <<>>]
      [] t = "EnumMember" ->
            [kind |-> t, Modifiers |-> <<>>, CaseDecl |-> Nil, VarDecl |-> Nil,
             FuncDecl |-> Nil, ClassDecl |-> Nil, EnumDecl |-> Nil,
             InitialiserDecl |-> Nil]
      [] t = "CaseDecl" -> [kind |-> t, Name |-> "", Type |-> Nil]
      [] t = "ClassDecl" -> [kind |-> t, Type |-> Nil, Members |-> <<>>]
      [] t = "ClassMember" ->
            [kind |-> t, Modifiers |-> <<>>, VarDecl |-> Nil, FuncDecl |-> Nil,
             ClassDecl |-> Nil, EnumDecl |-> Nil, InitialiserDecl |-> Nil]
      [] t = "InitialiserDecl" ->
            [kind |-> t, Parameters |-> <<>>, Throws |-> FALSE, Body |-> Nil]
      [] t = "TypeDecl" -> [kind |-> t, Type |-> "", TypeParameter |-> <<>>]
      [] t = "TypeParamDecl" -> [kind |-> t, Name |-> "", Constraints |-> <<>>]
      [] t = "Parameters" -> [kind |-> t, Names |-> <<>>, Type |-> Nil]
      [] t = "VarDecl" -> [kind |-> t, Vars |-> <<>>]
      [] t = "VarDeclAsgn" -> [kind |-> t, Name |-> "", Type |-> Nil, Default |-> Nil]
      [] t = "Stmt" ->
            [kind |-> t, Return |-> Nil, If |-> Nil, For |-> Nil, Switch |-> Nil,
             Block |-> Nil, VarDecl |-> Nil, FuncDecl |-> Nil, ClassDecl |-> Nil,
             EnumDecl |-> Nil, Expression |-> Nil]
      [] t = "Block" -> [kind |-> t, Statements |-> <<>>]
      [] t = "ForStmt" -> [kind |-> t, Target |-> Nil, Source |-> Nil, Body |-> Nil]
      [] t = "IfStmt" -> [kind |-> t, Condition |-> Nil, Main |-> Nil, Else |-> Nil]
      [] t = "SwitchStmt" -> [kind |-> t, Target |-> Nil, Cases |-> <<>>]
      [] t = "CaseStmt" -> [kind |-> t, Default |-> FALSE, Case |-> Nil, Body |-> <<>>]
      [] t = "CaseSelect" -> [kind |-> t, EnumCase |-> Nil, ExprCase |-> Nil]
      [] t = "EnumCase" -> [kind |-> t, Case |-> "", Var |-> ""]
      [] t = "ReturnStmt" -> [kind |-> t, Value |-> Nil]
      [] t = "FuncDecl" ->
            [kind |-> t, Name |-> "", Parameters |-> <<>>, Throws |-> FALSE,
             Return |-> Nil, Body |-> Nil]
      [] t = "Expr" -> [kind |-> t, Terminal |-> ""]
      [] t = "Reference" -> [kind |-> t, Name |-> "", Next |-> <<>>]

\* The fields that are slices (a capture appends) and bools (a capture sets).
SliceFields ==
    {<<"AST", "Declarations">>, <<"RootDecl", "Modifiers">>, <<"EnumDecl", "Members">>,
     <<"EnumMember", "Modifiers">>, <<"ClassDecl", "Members">>,
     <<"ClassMember", "Modifiers">>, <<"InitialiserDecl", "Parameters">>,
     <<"TypeDecl", "TypeParameter">>, <<"TypeParamDecl", "Constraints">>,
     <<"Parameters", "Names">>, <<"VarDecl", "Vars">>, <<"Block", "Statements">>,
     <<"SwitchStmt", "Cases">>, <<"CaseStmt", "Body">>, <<"FuncDecl", "Parameters">>,
     <<"Reference", "Next">>}

BoolFields ==
    {<<"InitialiserDecl", "Throws">>, <<"CaseStmt", "Default">>, <<"FuncDecl", "Throws">>}

\* ---------------------------------------------------------------- parser

\* participle.UseLookahead(1)
Lookahead == 1

\* What parsing a grammar node ends in: "ok" (matched, the cursor now at pos),
\* "no" (no match, nothing consumed) or "err" (an error, the branch's cursor at
\* pos, the error naming the token at epos). caps are the field captures waiting
\* to be applied to the enclosing struct, vals the values matched.
\* Every result also carries the deepest failure met on the way to it, kept
\* or not: the token it was at (fpos, -1 for none) and what was expected there
\* (fwant).
Ok(pos, caps, vals) ==
    [st |-> "ok", pos |-> pos, epos |-> 0, want |-> "", caps |-> caps, vals |-> vals,
     fpos |-> -1, fwant |-> ""]

NoMatch(pos) ==
    [st |-> "no", pos |-> pos, epos |-> 0, want |-> "", caps |-> <<>>, vals |-> <<>>,
     fpos |-> -1, fwant |-> ""]

Err(pos, epos, want) ==
    [st |-> "err", pos |-> pos, epos |-> epos, want |-> want, caps |-> <<>>, vals |-> <<>>,
     fpos |-> epos, fwant |-> want]

\* A parser that carries on the latest failure, however shallow.
Keep_latest(r, before) ==
    IF r.fpos >= 0 THEN r
    ELSE [r EXCEPT !.fpos = before.fpos, !.fwant = before.fwant]

\* The result r, reached after the result before it: the deeper failure of
\* the two is the one carried on, the later one if they are as deep.
Keep(r, before) ==
    IF r.fpos >= before.fpos THEN r
    ELSE [r EXCEPT !.fpos = before.fpos, !.fwant = before.fwant]

\* The result r with the deepest failure that s carries.
Carry(r, s) == [r EXCEPT !.fpos = s.fpos, !.fwant = s.fwant]

\* What a node that did not match was expected to start with.
RECURSIVE Expected(_)
Expected(n) ==
    CASE n.op = "lit" -> n.s
      [] n.op = "tok" -> n.t
      [] n.op = "struct" -> Expected(Grammar(n.t))
      [] n.op = "cap" -> Expected(n.n)
      [] n.op = "seq" -> Expected(n.ns[1])
      [] n.op = "alt" -> Expected(n.ns[1])
      [] n.op = "opt" -> Expected(n.n)
      [] n.op = "rep" -> Expected(n.n)

\* A branch that fails after progressing past the lookahead ends the parse.
Stop(start, branch) == branch > start + Lookahead

\* One captured value set into field f of struct r.
SetField(r, f, v) ==
    IF <<r.kind, f>> \in SliceFields THEN [r EXCEPT ![f] = Append(@, v)]
    ELSE IF <<r.kind, f>> \in BoolFields THEN [r EXCEPT ![f] = TRUE]
    ELSE [r EXCEPT ![f] = v]

RECURSIVE Apply(_, _, _)
Apply(r, caps, k) ==
    IF k > Len(caps) THEN r
    ELSE Apply(SetField(r, caps[k].f, caps[k].v), caps, k + 1)

\* The evaluation of a struct's rule is taken from a table of the results of
\* every struct type at every cursor, built level by level of struct nesting,
\* so that the result at any (type, cursor) is what the recursive descent
\* computes there. "deep" marks a result that needs more levels than built.
Deep ==
    [st |-> "deep", pos |-> 0, epos |-> 0, want |-> "", caps |-> <<>>, vals |-> <<>>,
     fpos |-> -1, fwant |-> ""]

Settled(r) == r.st = "ok" \/ r.st = "deep"

RECURSIVE ParseNode(_, _, _, _)
RECURSIVE ParseSeq(_, _, _, _, _, _)
RECURSIVE ParseAlt(_, _, _, _, _, _, _)
RECURSIVE ParseRep(_, _, _, _, _, _)

\* sequence: the elements lo..hi in order from cursor cur; a first element
\* that does not match is no match, a later one is an error at the token
\* reached. (The range is halved to keep the evaluation shallow.)
ParseSeq(ns, lo, hi, ts, cur, tab) ==
    IF lo = hi
    THEN LET r == ParseNode(ns[lo], ts, cur, tab) IN
         IF r.st = "no" /\ lo > 1 THEN Keep(Err(cur, cur, Expected(ns[lo])), r) ELSE r
    ELSE LET a == ParseSeq(ns, lo, (lo + hi) \div 2, ts, cur, tab) IN
         IF a.st # "ok" THEN a
         ELSE LET b == ParseSeq(ns, (lo + hi) \div 2 + 1, hi, ts, a.pos, tab) IN
              IF b.st # "ok" THEN Keep(b, a)
              ELSE Keep(Keep(Ok(b.pos, a.caps \o b.caps, a.vals \o b.vals), b), a)

\* ordered choice: the alternatives lo..hi in order, each on a branch from the
\* choice point i; the first that matches wins, and one that fails past the
\* lookahead ends the parse. deep is the deepest failure of the alternatives
\* so far: how far its branch went (pos, -1 when nothing has failed), the
\* token it names (epos) and what it expected there (want).
ParseAlt(ns, lo, hi, ts, i, deep, tab) ==
    IF lo = hi
    THEN LET r == ParseNode(ns[lo], ts, i, tab) IN
         IF Settled(r) THEN Keep(r, deep)
         ELSE IF r.st = "err" /\ Stop(i, r.pos) THEN Keep(r, deep)
         ELSE IF r.st = "err" /\ r.pos >= deep.pos THEN Keep([r EXCEPT !.st = "no"], deep)
         ELSE Carry([deep EXCEPT !.st = "no"], Keep(r, deep))
    ELSE LET a == ParseAlt(ns, lo, (lo + hi) \div 2, ts, i, deep, tab) IN
         IF a.st # "no" THEN Keep(a, deep)
         ELSE ParseAlt(ns, (lo + hi) \div 2 + 1, hi, ts, i, a, tab)

\* repetition: greedy, until the body does not match.
ParseRep(n, ts, cur, caps, vals, tab) ==
    LET r == ParseNode(n, ts, cur, tab) IN
    IF r.st = "ok" THEN Keep(ParseRep(n, ts, r.pos, caps \o r.caps, vals \o r.vals, tab), r)
    ELSE IF r.st = "deep" \/ (r.st = "err" /\ Stop(cur, r.pos)) THEN r
    ELSE Keep(Ok(cur, caps, vals), r)

ParseNode(n, ts, i, tab) ==
    CASE n.op = "lit" ->
            IF Peek(ts, i) = n.s THEN Ok(i + 1, <<>>, <<ts[i]>>) ELSE NoMatch(i)
      [] n.op = "tok" ->
            IF i <= Len(ts) /\ TokenType(ts[i]) = n.t
            THEN Ok(i + 1, <<>>, <<ts[i]>>) ELSE NoMatch(i)
      [] n.op = "struct" -> tab[n.t, i]
      [] n.op = "cap" ->
            LET r == ParseNode(n.n, ts, i, tab) IN
            IF r.st = "ok"
            THEN Keep(Ok(r.pos,
                         r.caps \o [k \in 1..Len(r.vals) |-> [f |-> n.f, v |-> r.vals[k]]],
                         <<>>), r)
            ELSE r
      [] n.op = "seq" -> ParseSeq(n.ns, 1, Len(n.ns), ts, i, tab)
      [] n.op = "alt" ->
            LET r == ParseAlt(n.ns, 1, Len(n.ns), ts, i, NoMatch(-1), tab) IN
            IF r.st # "no" THEN r
            ELSE IF r.pos >= 0 THEN Keep(Err(i, r.epos, r.want), r)
            ELSE Keep(NoMatch(i), r)
      [] n.op = "opt" ->
            LET r == ParseNode(n.n, ts, i, tab) IN
            IF Settled(r) THEN r
            ELSE IF r.st = "err" /\ Stop(i, r.pos) THEN r
            ELSE Keep(Ok(i, <<>>, <<>>), r)
      [] n.op = "rep" -> ParseRep(n.n, ts, i, <<>>, <<>>, tab)

\* A struct's rule at cursor i: its grammar, then the captures applied to a
\* new value of the struct.
ParseStruct(t, ts, i, tab) ==
    LET r == ParseNode(Grammar(t), ts, i, tab) IN
    IF r.st = "ok" THEN Keep(Ok(r.pos, <<>>, <<Apply(Zero(t), r.caps, 1)>>), r)
    ELSE r

\* The struct types a rule can refer to.
StructTypes ==
    {"RootDecl", "ImportDecl", "EnumDecl", "EnumMember", "CaseDecl", "ClassDecl",
     "ClassMember", "InitialiserDecl", "TypeDecl", "TypeParamDecl", "Parameters",
     "VarDecl", "VarDeclAsgn", "Stmt", "Block", "ForStmt", "IfStmt", "SwitchStmt",
     "CaseStmt", "CaseSelect", "EnumCase", "ReturnStmt", "FuncDecl", "Expr",
     "Reference"}

\* How many levels of struct nesting below the root a parse may use.
MaxDepth == 12

RECURSIVE Table(_, _)
Table(ts, d) ==
    IF d = 0 THEN [t \in StructTypes, i \in 1..Len(ts) + 1 |-> Deep]
    ELSE LET prev == Table(ts, d - 1) IN
         IF prev = <<>> THEN prev
         ELSE [t \in StructTypes, i \in 1..Len(ts) + 1 |->
                  IF prev[t, i].st # "deep" THEN prev[t, i]
                  ELSE ParseStruct(t, ts, i, prev)]

\* Texts no lexer rule matches: the lexer reports an error at them.
Unlexable == {"&"}

\* The tokens the parser sees before the lexer's error, all of them if none.
Lexed(ts) ==
    IF \A i \in DOMAIN ts : ts[i] \notin Unlexable THEN ts
    ELSE SubSeq(ts, 1, (CHOOSE i \in DOMAIN ts :
                            /\ ts[i] \in Unlexable
                            /\ \A j \in 1..i - 1 : ts[j] \notin Unlexable) - 1)

\* What a failed parse reports: the token it is at (its index in the text)
\* and what was expected there.
Report(at, want) == [at |-> at, want |-> want]

NoReport == Report(0, "")

\* The failure reported for the root's result r: the lexer's error if the
\* parse got to it; else the deepest failure met, unless the root had matched
\* past it up to a token that it does not take.
Reported(seen, ts, r) ==
    IF /\ seen # ts
       /\ ~(r.st = "err" /\ r.epos <= Len(seen))
       /\ ~(r.st = "ok" /\ r.pos <= Len(seen))
    THEN Report(Len(seen) + 1, "token")
    ELSE IF r.st = "ok" /\ r.fpos < r.pos THEN Report(r.pos, EOF)
    ELSE Report(r.fpos, r.fwant)

\* parser.ParseString(s, ast): the root struct, then the end of the input.
\* On a failure, ast is the target as far as the root struct had matched.
ParseTokens(ts) ==
    LET seen == Lexed(ts)
        r == ParseStruct("AST", seen, 1, Table(seen, MaxDepth))
        said == Reported(seen, ts, r) IN
    IF r.st = "deep" THEN [ok |-> FALSE, deep |-> TRUE, ast |-> Zero("AST"), report |-> said]
    ELSE IF r.st = "ok" /\ r.pos > Len(seen) /\ seen = ts
         THEN [ok |-> TRUE, deep |-> FALSE, ast |-> r.vals[1], report |-> NoReport]
    ELSE IF r.st = "ok"
         THEN [ok |-> FALSE, deep |-> FALSE, ast |-> r.vals[1], report |-> said]
    ELSE [ok |-> FALSE, deep |-> FALSE, ast |-> Zero("AST"), report |-> said]

\* ---------------------------------------------------------------- traversal

\* The typed dispatcher's switch, case by case: the type of the case and the
\* Visitor method it calls.
Cases ==
    << <<"*AST", "VisitAST">>, <<"ArrayLiteral", "VisitArrayLiteral">>,
       <<"Block", "VisitBlock">>, <<"Call", "VisitCall">>,
       <<"*CaseDecl", "VisitCaseDecl">>, <<"CaseSelect", "VisitCaseSelect">>,
       <<"CaseStmt", "VisitCaseStmt">>, <<"*ClassDecl", "VisitClassDecl">>,
       <<"*ClassMember", "VisitClassMember">>,
       <<"DictOrSetEntryLiteral", "VisitDictOrSetEntryLiteral">>,
       <<"DictOrSetLiteral", "VisitDictOrSetLiteral">>,
       <<"EnumCase", "VisitEnumCase">>, <<"*EnumDecl", "VisitEnumDecl">>,
       <<"*EnumMember", "VisitEnumMember">>, <<"*Expr", "VisitExpr">>,
       <<"ForStmt", "VisitForStmt">>, <<"*FuncDecl", "VisitFuncDecl">>,
       <<"IfStmt", "VisitIfStmt">>, <<"*ImportDecl", "VisitImportDecl">>,
       <<"*InitialiserDecl", "VisitInitialiserDecl">>,
       <<"Parameters", "VisitParameters">>, <<"*ReferenceNext", "VisitReferenceNext">>,
       <<"*RootDecl", "VisitRootDecl">>, <<"SwitchStmt", "VisitSwitchStmt">>,
       <<"TypeDecl", "VisitTypeDecl">>, <<"*Unary", "VisitUnary">>,
       <<"VarDeclAsgn", "VisitVarDeclAsgn">>, <<"*Literal", "VisitLiteral">>,
       <<"*Reference", "VisitReference">>, <<"ReturnStmt", "VisitReturnStmt">>,
       <<"Stmt", "VisitStmt">>, <<"Terminal", "VisitTerminal">>,
       <<"TypeParamDecl", "VisitTypeParamDecl">>, <<"*VarDecl", "VisitVarDecl">> >>

\* The cases of the switch a node of the given form matches.
Matching(form) == {k \in DOMAIN Cases : Cases[k][1] = form}

\* A dispatcher whose Block case is written for *Block.
Dispatch_pointerBlock(form) ==
    IF form = "Block" \/ Matching(form) = {} THEN ""
    ELSE Cases[CHOOSE k \in Matching(form) : TRUE][2]

\* switch n := node.(type): the method of the first matching case, "" when
\* the switch falls to default: panic(...).
Dispatch(form) ==
    IF Matching(form) = {} THEN ""
    ELSE Cases[CHOOSE k \in Matching(form) : \A m \in Matching(form) : k <= m][2]

\* The node at a path of slot indexes below n.
RECURSIVE NodeAt(_, _)
NodeAt(n, path) ==
    IF path = <<>> THEN n
    ELSE NodeAt(accept(n).slots[Head(path)].node, Tail(path))

\* The slot the top closure is about to pass to VisitFunc.
Top == stack[Len(stack)]

TopSlot == accept(NodeAt(ast, Top.path)).slots[Top.i]

\* One visitor invocation: the node (by its path), the slot it came from, the
\* form it was handed in, the Visitor method called ("" in the raw layer) and
\* what the method returned (in the raw layer: what the function passed to
\* the continuation).
Visited(p, slot, form, method, v) ==
    [path |-> p, field |-> slot.field, idx |-> slot.idx, kind |-> slot.type,
     form |-> form, method |-> method, isnil |-> IsNil(slot.node), returned |-> v]

\* Accept closures without their first lines, if err != nil { return err }.
next_ignoringError(e, a, p) ==
    IF a.panic THEN fault' = "resolver" /\ UNCHANGED <<stack, ret>>
    ELSE /\ stack' = Append(stack, [path |-> p, i |-> 1, n |-> Len(a.slots)])
         /\ ret' = "none"
         /\ UNCHANGED fault

\* next(e), the accept closure of the node at path p called by the visitor:
\* a non-nil error goes straight back; otherwise the closure starts its calls.
next(e, a, p) ==
    IF e # "nil" THEN ret' = e /\ UNCHANGED <<stack, fault>>
    ELSE IF a.panic THEN fault' = "resolver" /\ UNCHANGED <<stack, ret>>
    ELSE /\ stack' = Append(stack, [path |-> p, i |-> 1, n |-> Len(a.slots)])
         /\ ret' = "none"
         /\ UNCHANGED fault

\* maybeNext that hands the sentinel on to next like any error.
maybeNext_passing(e, a, p) == next(e, a, p)

\* maybeNext(e): TerminateRecursion becomes nil and the node's children are
\* passed by; anything else goes to next.
maybeNext(e, a, p) ==
    IF e = TerminateRecursion THEN ret' = "nil" /\ UNCHANGED <<stack, fault>>
    ELSE next(e, a, p)

\* The visitor function Visit builds, called on a non-nil node: the switch,
\* the Visitor method, maybeNext.
TypedVisitor(slot, a, p) ==
    IF Dispatch(a.hands) = ""
    THEN fault' = "dispatch" /\ UNCHANGED <<stack, ret, trace, prunes>>
    ELSE \E v \in {"nil", TerminateRecursion} \cup Errors :
            /\ v = TerminateRecursion => prunes < MaxPrunes
            /\ trace' = Append(trace, Visited(p, slot, a.hands, Dispatch(a.hands), v))
            /\ prunes' = IF v = TerminateRecursion THEN prunes + 1 ELSE prunes
            /\ maybeNext(v, a, p)

\* A visitor function of the raw layer: it calls the continuation with nil or
\* with an error and returns what the continuation returns.
RawVisitor(slot, a, p) ==
    \E e \in {"nil"} \cup Errors :
        /\ trace' = Append(trace, Visited(p, slot, a.hands, "", e))
        /\ UNCHANGED prunes
        /\ next(e, a, p)

\* accept called through a nil pointer whose type has a pointer receiver: the
\* body runs and hands the nil pointer to the visitor; Visit's function
\* returns nil for it, and a closure that runs dereferences it.
NilReceiver(slot, p, m) ==
    IF m = "typed"
    THEN ret' = "nil" /\ UNCHANGED <<stack, trace, fault, prunes>>
    ELSE \E e \in {"nil"} \cup Errors :
            /\ trace' = Append(trace, Visited(p, slot, "*" \o slot.type, "", e))
            /\ UNCHANGED <<stack, prunes>>
            /\ IF e # "nil" \/ slot.type = "ImportDecl"
               THEN ret' = e /\ UNCHANGED fault
               ELSE fault' = "nil dereference" /\ UNCHANGED ret

\* VisitFunc(node, visit) for the node of a slot, at path p.
VisitFunc(slot, p, m) ==
    IF IsNil(slot.node)
    THEN IF slot.type \in ValueReceivers
         THEN fault' = "nil dereference" /\ UNCHANGED <<stack, ret, trace, prunes>>
         ELSE IF slot.type \in SkippedWhenNil
         THEN ret' = "nil" /\ UNCHANGED <<stack, trace, fault, prunes>>
         ELSE NilReceiver(slot, p, m)
    ELSE IF m = "typed"
         THEN TypedVisitor(slot, accept(slot.node), p)
         ELSE RawVisitor(slot, accept(slot.node), p)

\* The arms of the union types, as the struct fields declare them.
Arms(t) ==
    CASE t = "RootDecl" -> {"Class", "Import", "Enum", "Var", "Func"}
      [] t = "EnumMember" ->
            {"CaseDecl", "VarDecl", "FuncDecl", "ClassDecl", "EnumDecl", "InitialiserDecl"}
      [] t = "ClassMember" ->
            {"VarDecl", "FuncDecl", "ClassDecl", "EnumDecl", "InitialiserDecl"}
      [] t = "Stmt" ->
            {"Return", "If", "For", "Switch", "Block", "VarDecl", "FuncDecl",
             "ClassDecl", "EnumDecl", "Expression"}
      [] t = "CaseSelect" -> {"EnumCase", "ExprCase"}
      [] OTHER -> {}

Unions == {"RootDecl", "EnumMember", "ClassMember", "Stmt", "CaseSelect"}

Populated(n) == {a \in Arms(n.kind) : ~IsNil(n[a])}

\* Every node of a tree: the arms of a union, the children of any other node.
RECURSIVE Nodes(_)
Nodes(n) ==
    LET below == IF n.kind \in Unions THEN {n[a] : a \in Populated(n)}
                 ELSE {accept(n).slots[k].node : k \in DOMAIN accept(n).slots} \ {Nil}
    IN {n} \cup UNION {Nodes(c) : c \in below}

\* The resolver of a union node.
Decl(n) ==
    CASE n.kind = "RootDecl" -> RootDecl_Decl(n)
      [] n.kind = "EnumMember" -> EnumMember_Decl(n)
      [] n.kind = "ClassMember" -> ClassMember_Decl(n)

\* What a call of Decl() or Decls() ends in: the list returned (of one entry
\* for Decl()), or a panic.
Outcome(op, n, list) == [op |-> op, of |-> n, panic |-> FALSE, list |-> list]

Panic(op, n) == [op |-> op, of |-> n, panic |-> TRUE, list |-> <<>>]

NoCall == Outcome("none", Nil, <<>>)

\* decls := []Decl{}; for each child, decls = append(decls, child.Decl()):
\* the list of the resolvers' results, unless one of them panics.
Appended(op, n, children) ==
    IF \E k \in DOMAIN children : Decl(children[k]) = Panicked THEN Panic(op, n)
    ELSE Outcome(op, n, [k \in DOMAIN children |-> Decl(children[k])])

AST_Decls(a) == Appended("Decls", a, a.Declarations)

EnumDecl_Decls(e) == Appended("Decls", e, e.Members)

ClassDecl_Decls(c) == Appended("Decls", c, c.Members)

\* ---------------------------------------------------------------- actions

Running == mode # "idle" /\ fault = "none"

\* return ast, <the parser's error>, for the parser's outcome r. What the
\* parser leaves in the target when it fails is decided outside these
\* sources: the target is either untouched or holds what had been parsed.
Return(r) ==
    /\ err' = IF r.ok THEN "nil" ELSE "parse error"
    /\ report' = r.report
    /\ \/ ast' = r.ast
       \/ ~r.ok /\ ast' = Zero("AST")
    /\ phase' = "parsed"

\* Parse(r), r a reader of the source text:
\* ast := &AST{}; return ast, parser.Parse(r, ast)
Parse ==
    /\ phase = "new"
    /\ Return(ParseTokens(src))
    /\ UNCHANGED <<src, mode, stack, ret, trace, fault, prunes>>
    /\ UNCHANGED elsewhere

\* ParseString(s): ast := &AST{}; return ast, parser.ParseString(s, ast)
ParseString ==
    /\ phase = "new"
    /\ Return(ParseTokens(src))
    /\ UNCHANGED <<src, mode, stack, ret, trace, fault, prunes>>
    /\ UNCHANGED elsewhere

\* Visit(ast, visitor)
Visit ==
    /\ phase = "parsed" /\ err = "nil" /\ mode = "idle"
    /\ mode' = "typed"
    /\ VisitFunc(Slot("", 0, "AST", ast), <<>>, "typed")
    /\ UNCHANGED <<src, phase, ast, err, report>>
    /\ UNCHANGED elsewhere

\* VisitFunc(ast, visit) with a visitor function of the caller
VisitRaw ==
    /\ phase = "parsed" /\ err = "nil" /\ mode = "idle"
    /\ mode' = "raw"
    /\ VisitFunc(Slot("", 0, "AST", ast), <<>>, "raw")
    /\ UNCHANGED <<src, phase, ast, err, report>>
    /\ UNCHANGED elsewhere

\* The top closure makes its next VisitFunc call.
Call ==
    /\ Running /\ ret = "none" /\ stack # <<>>
    /\ Top.i <= Top.n
    /\ VisitFunc(TopSlot, Append(Top.path, Top.i), mode)
    /\ UNCHANGED <<src, phase, ast, err, report, mode>>
    /\ UNCHANGED elsewhere

\* if err != nil { return err }: a callee's nil lets the closure go on.
Continue ==
    /\ Running /\ ret = "nil" /\ stack # <<>>
    /\ stack' = [stack EXCEPT ![Len(stack)].i = @ + 1]
    /\ ret' = "none"
    /\ UNCHANGED <<src, phase, ast, err, report, mode, trace, fault, prunes>>
    /\ UNCHANGED elsewhere

\* Closures that end on a callee's error but return nil.
Propagate_swallowed ==
    /\ Running /\ ret \notin {"none", "nil"} /\ stack # <<>>
    /\ stack' = SubSeq(stack, 1, Len(stack) - 1)
    /\ ret' = "nil"
    /\ UNCHANGED <<src, phase, ast, err, report, mode, trace, fault, prunes>>
    /\ UNCHANGED elsewhere

\* if err != nil { return err }: a callee's error ends the closure with it.
Propagate ==
    /\ Running /\ ret \notin {"none", "nil"} /\ stack # <<>>
    /\ stack' = SubSeq(stack, 1, Len(stack) - 1)
    /\ UNCHANGED <<src, phase, ast, err, report, mode, ret, trace, fault, prunes>>
    /\ UNCHANGED elsewhere

\* The closure has made all its calls: return nil.
Finish ==
    /\ Running /\ ret = "none" /\ stack # <<>>
    /\ Top.i > Top.n
    /\ stack' = SubSeq(stack, 1, Len(stack) - 1)
    /\ ret' = "nil"
    /\ UNCHANGED <<src, phase, ast, err, report, mode, trace, fault, prunes>>
    /\ UNCHANGED elsewhere

\* The nodes a caller holds: those of the parsed tree, and union nodes of its
\* own making with no arm set.
Resolvable ==
    {n \in Nodes(ast) : n.kind \in {"RootDecl", "EnumMember", "ClassMember"}}
    \cup {Zero("RootDecl"), Zero("EnumMember"), Zero("ClassMember")}

\* n.Decl() for a union node n
DeclOf ==
    /\ phase = "parsed" /\ err = "nil" /\ mode = "idle"
    /\ \E n \in Resolvable :
          call' = IF Decl(n) = Panicked THEN Panic("Decl", n) ELSE Outcome("Decl", n, <<Decl(n)>>)
    /\ phase' = "called"
    /\ UNCHANGED <<src, ast, err, report, mode, stack, ret, trace, fault, prunes>>
    /\ UNCHANGED <<chars, cursor, tokens, lexer, other>>

\* n.Decls() for a container n of the tree
Decls ==
    /\ phase = "parsed" /\ err = "nil" /\ mode = "idle"
    /\ \E n \in Nodes(ast) :
          \/ n.kind = "AST" /\ call' = AST_Decls(n)
          \/ n.kind = "EnumDecl" /\ call' = EnumDecl_Decls(n)
          \/ n.kind = "ClassDecl" /\ call' = ClassDecl_Decls(n)
    /\ phase' = "called"
    /\ UNCHANGED <<src, ast, err, report, mode, stack, ret, trace, fault, prunes>>
    /\ UNCHANGED <<chars, cursor, tokens, lexer, other>>

\* The traversal has returned to its caller, with ret.
Returned == mode # "idle" /\ fault = "none" /\ stack = <<>> /\ ret # "none"

\* The traversal that runs, as the other one is kept while it does not.
Traversal(m, s, r, t, f, p) ==
    [mode |-> m, stack |-> s, ret |-> r, trace |-> t, fault |-> f, prunes |-> p]

NotStarted == Traversal("idle", <<>>, "none", <<>>, "none", 0)

\* The scheduler takes the running traversal off and puts the other one on.
\* A panic of either has ended the program: there is nothing to switch to.
Switch ==
    /\ phase = "parsed" /\ err = "nil"
    /\ fault = "none"
    /\ other # Traversal(mode, stack, ret, trace, fault, prunes)
    /\ other' = Traversal(mode, stack, ret, trace, fault, prunes)
    /\ mode' = other.mode /\ stack' = other.stack /\ ret' = other.ret
    /\ trace' = other.trace /\ fault' = other.fault /\ prunes' = other.prunes
    /\ UNCHANGED <<src, phase, ast, err, report, call, chars, cursor, tokens, lexer>>

\* ---------------------------------------------------------------- lexing

\* One round of the lexer: the winning rule's match is taken off the input
\* at the cursor, and is a token unless the rule is an elided one.
Match ==
    /\ lexer = "lexing" /\ cursor <= Len(chars)
    /\ \E k \in DOMAIN Rules :
          /\ k = Winner(chars, cursor)
          /\ LET n == RuleMatch(Rules[k], chars, cursor) IN
                /\ cursor' = cursor + n
                /\ tokens' = IF Rules[k] \in Elided THEN tokens
                             ELSE Append(tokens, Token(Rules[k],
                                                       Text(SubSeq(chars, cursor, cursor + n - 1)),
                                                       cursor - 1))
    /\ UNCHANGED <<chars, lexer>>
    /\ UNCHANGED <<src, phase, ast, err, report, mode, stack, ret, trace, fault, prunes, call, other>>

\* No rule matches at the cursor: the lexer's error, at that offset.
Invalid ==
    /\ lexer = "lexing" /\ cursor <= Len(chars)
    /\ Winner(chars, cursor) = 0
    /\ lexer' = "error"
    /\ UNCHANGED <<chars, cursor, tokens>>
    /\ UNCHANGED <<src, phase, ast, err, report, mode, stack, ret, trace, fault, prunes, call, other>>

\* The input is used up.
AtEOF ==
    /\ lexer = "lexing" /\ cursor > Len(chars)
    /\ lexer' = "eof"
    /\ UNCHANGED <<chars, cursor, tokens>>
    /\ UNCHANGED <<src, phase, ast, err, report, mode, stack, ret, trace, fault, prunes, call, other>>

\* ---------------------------------------------------------------- inputs

Programs ==
    { <<"class", "A", "<", "T", ":", "B", ">", "{",
              "let", "x", ":", "T", "=", "1", ";", "init", "(", "a", ":", "T", ")", "{", "}", "}",
        "import", "'m'",
        "fn", "f", "(", "a", ":", "T", ")", ":", "R", "{",
              "if", "c", "{", "return", "1", "}", "else", "{", "return", "}", "}">>,
      <<"fn", "f", "(", ")", "{", "if", "c", "{", "x", "}", ";", "y", "}",
        "import", "'m'">>,
      <<"enum", "E", "{", "case", "A", "(", "T", ")", ";", "case", "B", ";",
        "fn", "g", "(", ")", "{", "}", "}", "let", "x", ";">>,
      <<"enum", "E", "{", "enum", "F", "{", "}", "}", "import", "'m'">>,
      <<"enum", "E", "{", "case", "A", "(", "T", ")", "}", "let", "x", "=", "1", ",", "y", ":", "T", ";">>,
      <<"fn", "f", "(", ")", "{", "for", "i", "in", "x", "{", "}", ";",
              "switch", "x", "{", "case", ".", "A", ":", "y", "default", ":", "z", "}", "}">>,
      <<"fn", "f", "(", ")", "{", "switch", "x", "{", "case", "y", ":", "}", "}">> }

\* Root declarations, well-formed and not, for the parser.
MaxModifiers == 2

WellFormed ==
    { <<"class", "A", "{", "}">>, <<"import", "'m'">>, <<"enum", "E", "{", "}">>,
      <<"let", "x", ";">>, <<"fn", "f", "(", ")", "{", "}">> }

IllFormed ==
    { <<"let", "x">>, <<"import">>, <<"fn", "f", "(", "{", "}">>, <<"class", "{", "}">>,
      <<"x", ";">>, <<"let", "x", "&", ";">> }

RECURSIVE ModifierRuns(_)
ModifierRuns(n) ==
    IF n = 0 THEN {<<>>}
    ELSE ModifierRuns(n - 1)
         \cup {<<m>> \o r : m \in Modifier, r \in {q \in ModifierRuns(n - 1) : Len(q) = n - 1}}

Tails == {<<>>, <<"import", "'m'">>, <<"let">>}

ParseInputs ==
    {m \o d \o t : m \in ModifierRuns(MaxModifiers), d \in WellFormed \cup IllFormed, t \in Tails}

\* Bodies with one to MaxMembers members, with or without a ";" after the last.
MaxMembers == 2

BodyKinds == {"class", "enum", "block"}

BodyOpen(kind) ==
    CASE kind = "class" -> <<"class", "A", "{">>
      [] kind = "enum" -> <<"enum", "E", "{">>
      [] kind = "block" -> <<"fn", "f", "(", ")", "{">>

BodyMember(kind, k) ==
    CASE kind = "class" -> IF k % 2 = 1 THEN <<"let", "x">> ELSE <<"fn", "g", "(", ")", "{", "}">>
      [] kind = "enum" -> IF k % 2 = 1 THEN <<"case", "A">> ELSE <<"case", "B", "(", "T", ")">>
      [] kind = "block" -> IF k % 2 = 1 THEN <<"x">> ELSE <<"return", "1">>

RECURSIVE BodyMembers(_, _)
BodyMembers(kind, n) ==
    IF n = 1 THEN BodyMember(kind, 1)
    ELSE BodyMembers(kind, n - 1) \o <<";">> \o BodyMember(kind, n)

BodyInput(kind, n, trailing) ==
    BodyOpen(kind) \o BodyMembers(kind, n) \o (IF trailing THEN <<";">> ELSE <<>>) \o <<"}">>

BodyInputs ==
    {BodyInput(kind, n, tr) : kind \in BodyKinds, n \in 1..MaxMembers, tr \in BOOLEAN}

\* One root declaration, written without terminator, then with or without ";".
Unterminated ==
    { <<"class", "A", "{", "}">>, <<"import", "'m'">>, <<"enum", "E", "{", "}">>,
      <<"let", "x">>, <<"fn", "f", "(", ")", "{", "}">> }

TerminatorInputs == {d \o t : d \in Unterminated, t \in {<<>>, <<";">>}}

\* Type-parameter lists of up to MaxTypeParams entries, each entry a name with
\* or without one constraint.
MaxTypeParams == 2

TypeParamName(k) == IF k % 2 = 1 THEN "T" ELSE "U"

TypeParamEntry(k, constrained) ==
    IF constrained THEN <<TypeParamName(k), ":", "A">> ELSE <<TypeParamName(k)>>

RECURSIVE TypeParamEntries(_, _)
TypeParamEntries(cs, n) ==
    IF n = 1 THEN TypeParamEntry(1, cs[1])
    ELSE TypeParamEntries(cs, n - 1) \o <<",">> \o TypeParamEntry(n, cs[n])

\* class C<...> { } for the entries cs, cs[k] telling whether entry k is constrained
TypeParamInput(cs) == <<"class", "C", "<">> \o TypeParamEntries(cs, Len(cs)) \o <<">", "{", "}">>

TypeParamLists == UNION {[1..n -> BOOLEAN] : n \in 1..MaxTypeParams}

TypeParamInputs == {TypeParamInput(cs) : cs \in TypeParamLists}

\* The texts the lexer is given: around each two-character operator, around
\* each reserved word, and runs of pieces of every rule's kind.
OperatorChars == OneCharOperators \cup {"&", "|"}

OperatorPairs ==
    {p \in OperatorChars \X OperatorChars :
        \E k \in DOMAIN TwoCharOperators : p[1] \o p[2] = TwoCharOperators[k]}

OperatorTexts ==
    {pre \o p \o post :
        pre \in {<<>>, <<"a">>, <<"a", " ">>},
        p \in OperatorPairs,
        post \in {<<>>, <<"b">>, <<" ", "b">>, <<"=">>, <<">">>}}

ReservedSpelled ==
    {<<"p", "u", "b">>, <<"o", "v", "e", "r", "r", "i", "d", "e">>,
     <<"s", "t", "a", "t", "i", "c">>, <<"i", "n">>, <<"s", "w", "i", "t", "c", "h">>,
     <<"c", "a", "s", "e">>, <<"d", "e", "f", "a", "u", "l", "t">>, <<"i", "f">>,
     <<"e", "n", "u", "m">>, <<"a", "l", "i", "a", "s">>, <<"l", "e", "t">>, <<"f", "n">>,
     <<"b", "r", "e", "a", "k">>, <<"c", "o", "n", "t", "i", "n", "u", "e">>,
     <<"f", "o", "r">>, <<"t", "h", "r", "o", "w", "s">>, <<"i", "m", "p", "o", "r", "t">>,
     <<"n", "e", "w">>}

WordTexts ==
    {pre \o w \o post :
        pre \in {<<>>, <<"x", " ">>, <<"_">>, <<"(">>},
        w \in ReservedSpelled,
        post \in {<<>>, <<"t", "e", "r">>, <<"m", "a", "t">>, <<"1">>, <<"_">>,
                  <<" ", "x">>, <<"(">>, <<"=">>}}

Pieces ==
    {<<"a">>, <<"1">>, <<"1", ".", "5">>, <<".">>, <<" ">>, <<"\n">>,
     <<"\"", "s", "\"">>, <<"\"", "s">>, <<"'", "m", "'">>,
     <<"/", "/", "c">>, <<"/", "*", "c", "*", "/">>, <<"/", "*">>, <<"\\">>, <<"&">>}

MaxPieces == 2

RECURSIVE PieceRuns(_)
PieceRuns(n) ==
    IF n = 0 THEN {<<>>}
    ELSE PieceRuns(n - 1) \cup {r \o p : r \in PieceRuns(n - 1), p \in Pieces}

Texts == OperatorTexts \cup WordTexts \cup PieceRuns(MaxPieces)

\* Texts that fail to parse, with the failure at the first token of a
\* declaration, after it, and inside an optional part or a body.
FailingInputs ==
    {m \o f \o t :
        m \in {<<>>, <<"pub">>, <<"import", "'m'">>},
        f \in {<<"let", ";">>, <<"let", "x", ":", ";">>, <<"let", "x", "=", ";">>,
               <<"class", "C", "{", "let", ";", "}">>, <<"enum", "E", "{", "case", "}">>,
               <<"fn", "f", "(", "x", ")", "{", "}">>, <<"import", "x">>, <<"+">>},
        t \in {<<>>, <<"let", "y", ";">>}}

\* The words the grammar matches literally at the start of a rule and the
\* Keyword rule does not list, spelled out.
LeadingSpelled ==
    {<<"c", "l", "a", "s", "s">>, <<"i", "n", "i", "t">>,
     <<"r", "e", "t", "u", "r", "n">>, <<"e", "l", "s", "e">>}

LeadingWords == {Text(w) : w \in LeadingSpelled}

\* A declaration of each kind that has a name, with the word w as the name.
NameForms == {"VarDeclAsgn", "FuncDecl", "CaseDecl", "TypeDecl", "Parameters"}

NameInput(form, w) ==
    CASE form = "VarDeclAsgn" -> <<"let", w, "=", "1", ";">>
      [] form = "FuncDecl" -> <<"fn", w, "(", ")", "{", "}">>
      [] form = "CaseDecl" -> <<"enum", "E", "{", "case", w, "}">>
      [] form = "TypeDecl" -> <<"class", w, "{", "}">>
      [] form = "Parameters" -> <<"fn", "f", "(", w, ":", "T", ")", "{", "}">>

NameInputs ==
    {NameInput(form, w) : form \in NameForms, w \in LeadingWords \cup {"let", "if", "x"}}

Idle ==
    /\ phase = "new"
    /\ ast = Zero("AST")
    /\ err = "nil"
    /\ report = NoReport
    /\ mode = "idle"
    /\ stack = <<>>
    /\ ret = "none"
    /\ trace = <<>>
    /\ fault = "none"
    /\ prunes = 0
    /\ call = NoCall

\* No text has been given to the lexer.
NoText == chars = <<>> /\ cursor = 1 /\ tokens = <<>> /\ lexer = "idle"

\* No second traversal has been started.
Single == other = NotStarted

Init == src \in Programs /\ Idle /\ NoText /\ Single

InitParse ==
    /\ src \in Programs \cup ParseInputs \cup BodyInputs \cup TerminatorInputs \cup TypeParamInputs
                \cup FailingInputs \cup NameInputs
    /\ Idle
    /\ NoText
    /\ Single

\* lex.Lex(r) on a text: the lexer stands at its start.
InitLex ==
    /\ chars \in Texts /\ cursor = 1 /\ tokens = <<>> /\ lexer = "lexing"
    /\ src = <<>> /\ Idle /\ Single

Next ==
    \/ Parse
    \/ ParseString
    \/ Visit
    \/ VisitRaw
    \/ Call
    \/ Continue
    \/ Propagate
    \/ Finish
    \/ DeclOf
    \/ Decls

Spec == Init /\ [][Next]_vars

SpecParse == InitParse /\ [][Next]_vars

\* Two traversals of one tree, run by turns.
PairPrograms ==
    {<<"import", "'m'", "let", "x", ";">>,
     <<"fn", "f", "(", ")", "{", "if", "c", "{", "}", "}">>,
     <<"enum", "E", "{", "enum", "F", "{", "}", "}">>}

InitPair == src \in PairPrograms /\ Idle /\ NoText /\ Single

NextPair ==
    \/ Next
    \/ Switch

SpecPair == InitPair /\ [][NextPair]_vars

NextLex ==
    \/ Match
    \/ Invalid
    \/ AtEOF

SpecLex == InitLex /\ [][NextLex]_vars

\* The lexer is run until it has given its last token or its error.
SpecLexFair == SpecLex /\ WF_vars(NextLex)

\* ---------------------------------------------------------------- properties

\* The paths of the nodes a traversal that is never cut short hands to the
\* visitor.
RECURSIVE Paths(_)
Paths(n) ==
    {<<>>} \cup UNION {{<<k>> \o q : q \in Paths(accept(n).slots[k].node)} :
                         k \in {j \in DOMAIN accept(n).slots : ~IsNil(accept(n).slots[j].node)}}

\* q is a node below p.
Below(q, p) == Len(q) > Len(p) /\ SubSeq(q, 1, Len(p)) = p

\* q comes after p in traversal order and is not below it.
Follows(q, p) ==
    \E k \in 1..Len(p) :
        /\ k <= Len(q)
        /\ SubSeq(q, 1, k - 1) = SubSeq(p, 1, k - 1)
        /\ q[k] > p[k]

VisitedPaths == {trace[i].path : i \in DOMAIN trace}

PrunedAt == {trace[i].path : i \in {j \in DOMAIN trace : trace[j].returned = TerminateRecursion}}

ErrorReturned == \E i \in DOMAIN trace : trace[i].returned \in Errors

\* The traversal is over: it returned, or a panic ended it.
Ended == mode # "idle" /\ (fault # "none" \/ (stack = <<>> /\ ret # "none"))

\* C1: in a typed traversal, once the method called for a node N has returned
\* TerminateRecursion no method is called for a node below N; and when the
\* traversal is over and no method has returned an error, Visit has returned
\* nil and every node that follows N outside the pruned subtrees was visited.
C1_PruneSkipsOnlyTheSubtree ==
    mode = "typed" =>
        /\ \A p \in PrunedAt : \A q \in VisitedPaths : ~Below(q, p)
        /\ (Ended /\ PrunedAt # {} /\ ~ErrorReturned) =>
              /\ fault = "none"
              /\ ret = "nil"
              /\ \A q \in Paths(ast) :
                    ((\E p \in PrunedAt : Follows(q, p)) /\ (\A p \in PrunedAt : ~Below(q, p)))
                        => q \in VisitedPaths

\* C1, the case at hand: a node was pruned and the traversal is over without
\* any method having returned an error.
C1_Pruned == mode = "typed" /\ Ended /\ PrunedAt # {} /\ ~ErrorReturned

\* C2: in a typed traversal, once a Visitor method has returned an error E
\* other than TerminateRecursion, that call is the last visitor call, E is on
\* its way back through the enclosing closures, and what Visit returns is E.
C2_TypedErrorAborts ==
    mode = "typed" =>
        \A i \in DOMAIN trace :
            trace[i].returned \in Errors =>
                /\ i = Len(trace)
                /\ fault = "none"
                /\ ret = trace[i].returned
                /\ stack # <<>> => ENABLED Propagate

\* C2, the case at hand: Visit has returned the error of a method called below
\* the root, with nodes of the tree left unvisited.
C2_Aborted ==
    /\ mode = "typed" /\ Ended /\ fault = "none" /\ ret \in Errors
    /\ Len(trace[Len(trace)].path) >= 3
    /\ Paths(ast) \ VisitedPaths # {}

\* C3: a raw traversal whose visitor always calls the continuation with nil
\* is never ended by a nil dereference and never calls the visitor for an
\* absent child.
C3_AbsentChildrenSkipped ==
    (mode = "raw" /\ \A i \in DOMAIN trace : trace[i].returned = "nil") =>
        /\ fault # "nil dereference"
        /\ \A i \in DOMAIN trace : ~trace[i].isnil

\* C3, a case that goes well: a return statement without value was passed by.
C3_SkippedValue ==
    /\ mode = "raw" /\ Ended /\ fault = "none" /\ ret = "nil"
    /\ \E n \in Nodes(ast) : n.kind = "ReturnStmt" /\ IsNil(n.Value)

\* C4: for every RootDecl, EnumMember and ClassMember of a parsed tree with
\* exactly one arm populated, Decl() returns the node of that arm.
C4_ResolverReturnsTheArm ==
    (phase = "parsed" /\ err = "nil" /\ mode = "idle") =>
        \A n \in Nodes(ast) :
            n.kind \in {"RootDecl", "EnumMember", "ClassMember"} =>
                \A a \in Arms(n.kind) : Populated(n) = {a} => Decl(n) = n[a]

\* C4, a case that goes well: an enum member whose CaseDecl arm is populated.
C4_CaseArm ==
    /\ phase = "parsed" /\ err = "nil" /\ mode = "idle"
    /\ \E n \in Nodes(ast) : n.kind = "EnumMember" /\ Populated(n) = {"CaseDecl"}

\* The forms the accept methods hand to the visitor.
HandedForms ==
    {accept(Zero(t)).hands : t \in StructTypes \cup {"AST"}}

\* C5: every form an accept method hands to the visitor matches exactly one
\* case of the dispatcher's switch; no typed traversal ends in the switch's
\* default, and every node the visitor was called for went to the one Visitor
\* method of its case.
C5_DispatcherTotal ==
    /\ phase = "new" =>
          \A f \in HandedForms : Cardinality(Matching(f)) = 1 /\ Dispatch(f) # ""
    /\ fault # "dispatch"
    /\ mode = "typed" =>
          \A i \in DOMAIN trace :
              /\ Cardinality(Matching(trace[i].form)) = 1
              /\ trace[i].method = Cases[CHOOSE k \in Matching(trace[i].form) : TRUE][2]

\* C5, the case at hand: a typed traversal that returned nil after calling
\* methods for nodes handed by value and by pointer.
C5_Dispatched ==
    /\ mode = "typed" /\ Ended /\ fault = "none" /\ ret = "nil"
    /\ \E i, j \in DOMAIN trace : trace[i].form = "Block" /\ trace[j].form = "*FuncDecl"

\* The order C6 names for the children of each node type, by field.
FieldOrder(t) ==
    CASE t = "IfStmt" -> <<"Condition", "Main", "Else">>
      [] t = "ForStmt" -> <<"Target", "Source", "Body">>
      [] t = "FuncDecl" -> <<"Parameters", "Return", "Body">>
      [] t = "SwitchStmt" -> <<"Target", "Cases">>
      [] t = "ClassDecl" -> <<"Type", "Members">>
      [] t = "EnumDecl" -> <<"Type", "Members">>
      [] OTHER -> <<>>

Rank(t, f) == CHOOSE k \in DOMAIN FieldOrder(t) : FieldOrder(t)[k] = f

Parent(p) == SubSeq(p, 1, Len(p) - 1)

\* C6: of two children of one node, the one visited first is the one C6's
\* order puts first (by field, then by position in a list field), and once
\* the second is visited nothing below the first is visited any more.
C6_ChildOrder ==
    \A i, j \in DOMAIN trace :
        (i < j /\ trace[i].path # <<>> /\ Len(trace[i].path) = Len(trace[j].path)
               /\ Parent(trace[i].path) = Parent(trace[j].path)) =>
            /\ LET t == NodeAt(ast, Parent(trace[i].path)).kind IN
               FieldOrder(t) # <<>> =>
                   \/ Rank(t, trace[i].field) < Rank(t, trace[j].field)
                   \/ /\ trace[i].field = trace[j].field
                      /\ trace[i].idx < trace[j].idx
            /\ \A k \in DOMAIN trace : k > j => ~Below(trace[k].path, trace[i].path)

\* C6, the case at hand: an if statement with its three children visited, and
\* a function with a parameter, a return type and a body visited.
C6_AllChildren ==
    /\ Ended /\ fault = "none" /\ ret = "nil"
    /\ \E i, j \in DOMAIN trace :
          /\ trace[i].field = "Else" /\ Len(trace[i].path) < Len(trace[Len(trace)].path)
          /\ trace[j].field = "Return" /\ trace[j].kind = "Reference"
    /\ \E i \in DOMAIN trace : trace[i].field = "Parameters"

\* C7: in a raw traversal, once the visit function has called the
\* continuation with an error E, that call is the last visitor call, E is on
\* its way back through the enclosing closures, and what VisitFunc returns is E.
C7_RawErrorAborts ==
    mode = "raw" =>
        \A i \in DOMAIN trace :
            trace[i].returned \in Errors =>
                /\ i = Len(trace)
                /\ fault = "none"
                /\ ret = trace[i].returned
                /\ stack # <<>> => ENABLED Propagate

\* C7, the case at hand: VisitFunc has returned the error given to the
\* continuation of a node with children, below the root.
C7_Aborted ==
    /\ mode = "raw" /\ Ended /\ fault = "none" /\ ret \in Errors
    /\ Len(trace[Len(trace)].path) >= 2
    /\ \E q \in Paths(ast) : Below(q, trace[Len(trace)].path)

\* C9: after a successful parse every RootDecl, EnumMember, ClassMember, Stmt
\* and CaseSelect of the tree has exactly one populated arm, and every
\* CaseStmt has either Default set or Case populated, not both.
C9_OneArm ==
    (phase = "parsed" /\ err = "nil" /\ mode = "idle") =>
        \A n \in Nodes(ast) :
            /\ n.kind \in Unions => Cardinality(Populated(n)) = 1
            /\ n.kind = "CaseStmt" => (n.Default <=> IsNil(n.Case))

\* C9, the case at hand: a parsed tree with a default case, a case with a
\* selector and statements.
C9_Parsed ==
    /\ phase = "parsed" /\ err = "nil" /\ mode = "idle"
    /\ \E m, n \in Nodes(ast) :
          /\ m.kind = "CaseStmt" /\ m.Default
          /\ n.kind = "CaseStmt" /\ ~IsNil(n.Case)

\* The first token of the input that is not a modifier.
Leading(ts) ==
    LET k == CHOOSE i \in 1..Len(ts) + 1 :
                 /\ i <= Len(ts) => TokenType(ts[i]) # "Modifier"
                 /\ \A j \in 1..i - 1 : TokenType(ts[j]) = "Modifier"
    IN Peek(ts, k)

\* The arm each leading keyword stands for.
ArmOf(w) ==
    CASE w = "class" -> "Class"
      [] w = "import" -> "Import"
      [] w = "enum" -> "Enum"
      [] w = "let" -> "Var"
      [] w = "fn" -> "Func"
      [] OTHER -> ""

WellFormedInputs ==
    {m \o d \o t : m \in ModifierRuns(MaxModifiers), d \in WellFormed,
                   t \in {<<>>, <<"import", "'m'">>}}

\* C10: a well-formed declaration after any modifiers parses, and the first
\* RootDecl of a parsed input has the arm of the input's leading keyword
\* populated and no other.
C10_KeywordRoutes ==
    phase = "parsed" =>
        /\ src \in WellFormedInputs => err = "nil" /\ ast.Declarations # <<>>
        /\ (err = "nil" /\ ast.Declarations # <<>>) =>
              Populated(ast.Declarations[1]) = {ArmOf(Leading(src))}

\* C10, the case at hand: a let declaration after two modifiers, parsed.
C10_ModifiedLet ==
    /\ phase = "parsed" /\ err = "nil"
    /\ Len(src) > MaxModifiers /\ Leading(src) = "let" /\ TokenType(src[MaxModifiers]) = "Modifier"
    /\ Populated(ast.Declarations[1]) = {"Var"}

\* The member list of the body a body input declares.
BodyList(a, kind) ==
    CASE kind = "class" -> a.Declarations[1].Class.Members
      [] kind = "enum" -> a.Declarations[1].Enum.Members
      [] kind = "block" -> a.Declarations[1].Func.Body.Statements

\* C11: a class body, enum body or block of n members parses with and
\* without a ";" after the last member, to the same tree, with n members.
C11_TrailingSeparator ==
    (phase = "parsed" /\ mode = "idle") =>
        \A kind \in BodyKinds, n \in 1..MaxMembers :
            /\ src = BodyInput(kind, n, FALSE) =>
                  err = "nil" /\ Len(BodyList(ast, kind)) = n
            /\ src = BodyInput(kind, n, TRUE) =>
                  /\ err = "nil" /\ Len(BodyList(ast, kind)) = n
                  /\ ParseTokens(BodyInput(kind, n, FALSE)).ok
                  /\ ast = ParseTokens(BodyInput(kind, n, FALSE)).ast

\* C11, the case at hand: an enum body of two cases and a trailing ";", parsed.
C11_TrailingParsed ==
    /\ phase = "parsed" /\ err = "nil" /\ src = BodyInput("enum", 2, TRUE)
    /\ Len(ast.Declarations[1].Enum.Members) = 2

\* C12: at the root a let declaration parses if and only if a ";" follows it;
\* a class, import, enum or fn declaration parses with and without a ";"
\* after it, to the same tree.
C12_RootTerminator ==
    (phase = "parsed" /\ mode = "idle") =>
        \A d \in Unterminated :
            IF Head(d) = "let"
            THEN /\ src = d => err # "nil"
                 /\ src = d \o <<";">> => err = "nil" /\ Populated(ast.Declarations[1]) = {"Var"}
            ELSE /\ src = d => err = "nil"
                 /\ src = d \o <<";">> =>
                       /\ err = "nil"
                       /\ Len(ast.Declarations) = 1
                       /\ ParseTokens(d).ok
                       /\ ast = ParseTokens(d).ast

\* C12, the cases at hand: let without ";" refused, fn with ";" parsed.
C12_LetRefused == phase = "parsed" /\ src = <<"let", "x">> /\ err # "nil"

\* The constraints a parsed type parameter holds, by name.
ConstraintNames(tp) == [k \in DOMAIN tp.Constraints |-> tp.Constraints[k].Name]

\* C13: a type-parameter list of n entries parses to n TypeParamDecl nodes in
\* order, each named as written and holding exactly the constraints written
\* for it.
C13_TypeParameters ==
    (phase = "parsed" /\ mode = "idle") =>
        \A cs \in TypeParamLists :
            src = TypeParamInput(cs) =>
                /\ err = "nil"
                /\ LET tps == ast.Declarations[1].Class.Type.TypeParameter IN
                   /\ Len(tps) = Len(cs)
                   /\ \A k \in DOMAIN tps :
                         /\ tps[k].Name = TypeParamName(k)
                         /\ ConstraintNames(tps[k]) = IF cs[k] THEN <<"A">> ELSE <<>>

\* C13, a case that goes well: <T, U: A> parsed to two type parameters.
C13_LastConstrained ==
    /\ phase = "parsed" /\ err = "nil" /\ src = TypeParamInput(<<FALSE, TRUE>>)
    /\ Len(ast.Declarations[1].Class.Type.TypeParameter) = 2

\* A token of the text lexed so far.
Emitted(type, value) == \E k \in DOMAIN tokens : tokens[k].type = type /\ tokens[k].value = value

\* The lexer stands before a two-character operator.
AtTwoCharOperator ==
    /\ lexer = "lexing"
    /\ \E k \in DOMAIN TwoCharOperators : Has(chars, cursor, TwoCharOperators[k])

\* C14: when the lexer stands before the two characters of a two-character
\* operator, its next token is one Operator token with those two characters
\* as its text; and a >= b lexes to Ident(a), Operator(>=), Ident(b).
C14_TwoCharOperatorIsOneToken ==
    /\ [][AtTwoCharOperator =>
            /\ tokens' = Append(tokens, Token("Operator",
                                              Text(SubSeq(chars, cursor, cursor + 1)),
                                              cursor - 1))
            /\ cursor' = cursor + 2]_vars
    /\ [](lexer = "eof" /\ Text(chars) = "a >= b" =>
            /\ Len(tokens) = 3
            /\ <<tokens[1].type, tokens[1].value>> = <<"Ident", "a">>
            /\ <<tokens[2].type, tokens[2].value>> = <<"Operator", ">=">>
            /\ <<tokens[3].type, tokens[3].value>> = <<"Ident", "b">>)

\* C14: a >= b has been lexed to its end, and so has every two-character
\* operator standing alone.
C14_OperatorLexed ==
    /\ lexer = "eof"
    /\ \/ Text(chars) = "a >= b" /\ Emitted("Operator", ">=")
       \/ /\ Len(chars) = 2 /\ Len(tokens) = 1
          /\ tokens[1].type = "Operator"
          /\ tokens[1].value = "||"

\* The longest run of word characters at the cursor, as a text.
WordAt(t, i) == Text(SubSeq(t, i, i + RunIn(t, i, Word) - 1))

\* The lexer stands before a name that goes on after a reserved word.
AtLongerName ==
    /\ lexer = "lexing"
    /\ \E w \in Modifier \cup Keyword :
          /\ Has(chars, cursor, w)
          /\ RunIn(chars, cursor, Word) > Len(w)

\* C15: no Ident token has a reserved modifier or keyword as its text, and a
\* name that goes on after a reserved word is given as one Ident token with
\* the whole name as its text.
C15_ReservedWordsAreNoIdent ==
    /\ [](\A k \in DOMAIN tokens :
             tokens[k].type = "Ident" => tokens[k].value \notin Modifier \cup Keyword)
    /\ [][AtLongerName =>
            /\ tokens' = Append(tokens, Token("Ident", WordAt(chars, cursor), cursor - 1))
            /\ cursor' = cursor + RunIn(chars, cursor, Word)]_vars

\* C15: letter and format have been lexed, each to one Ident token, and let
\* to a Keyword token.
C15_LongerNameLexed ==
    /\ lexer = "eof"
    /\ \/ Text(chars) = "letter" /\ tokens = <<Token("Ident", "letter", 0)>>
       \/ Text(chars) = "format" /\ tokens = <<Token("Ident", "format", 0)>>

\* The lexer has stopped: after its last token, or with its error.
Stopped == lexer \in {"eof", "error"}

\* C16: no rule matches the empty string at any position of the text; each
\* round of the lexer either moves the cursor forward by the span of the
\* rule that wins at the cursor, or stops with the error at the cursor where
\* no rule matches, or stops at the end of the text, so that where a text
\* fails is a function of the text; and the lexer stops in the end.
C16_LexingTerminates ==
    /\ [](cursor = 1 =>
            \A k \in DOMAIN Rules : \A i \in 1..Len(chars) + 1 :
                RuleMatch(Rules[k], chars, i) # 0)
    /\ [][lexer = "lexing" =>
            \/ /\ lexer' = "lexing" /\ cursor' > cursor
               /\ Winner(chars, cursor) # 0
               /\ cursor' - cursor = RuleMatch(Rules[Winner(chars, cursor)], chars, cursor)
            \/ /\ lexer' = "error" /\ cursor' = cursor /\ cursor <= Len(chars)
               /\ \A k \in DOMAIN Rules : RuleMatch(Rules[k], chars, cursor) = NoRule
            \/ /\ lexer' = "eof" /\ cursor' = cursor /\ cursor = Len(chars) + 1]_vars
    /\ [][chars' = chars]_vars
    /\ <>Stopped

\* C16: the lexer has stopped with its error after a token or more, at an
\* unterminated string or at a character of no rule; and it has stopped at
\* the end of a text of an elided comment and a token.
C16_StoppedBothWays ==
    \/ /\ lexer = "error" /\ cursor > 1 /\ tokens # <<>>
       /\ At(chars, cursor) \in {"\"", "&"}
    \/ /\ lexer = "eof" /\ Len(tokens) = 1 /\ Has(chars, 1, "/*c*/")

\* The children a container's Decls() ranges over.
Children(n) == IF n.kind = "AST" THEN n.Declarations ELSE n.Members

\* C17: Decls() of an AST, an EnumDecl or a ClassDecl returns a list with one
\* entry per child, in source order, the i-th entry being what the resolver
\* of the i-th child returns; a container without children gives the empty
\* list; and the call leaves the tree as it was.
C17_DeclsListsTheChildren ==
    /\ [](call.op = "Decls" =>
            /\ ~call.panic
            /\ Len(call.list) = Len(Children(call.of))
            /\ \A k \in DOMAIN call.list : call.list[k] = Decl(Children(call.of)[k]))
    /\ [][call'.op = "Decls" => ast' = ast]_vars

\* C17: Decls() has returned the list of an enum of two members or more.
C17_ListedMembers ==
    /\ call.op = "Decls" /\ ~call.panic
    /\ call.of.kind = "EnumDecl"
    /\ Len(call.list) >= 2
    /\ \A k \in DOMAIN call.list : call.list[k] = Decl(call.of.Members[k])

\* C18: Decl() of a union node with no arm populated panics instead of
\* returning a nil declaration, and so does the traversal of a Stmt with no
\* arm populated; no node of a successfully parsed tree brings that panic
\* about, neither in a Decl() call nor in a traversal.
C18_NoArmFaultOnlyOffParse ==
    /\ call.op = "Decl" /\ Populated(call.of) = {} => call.panic
    /\ phase = "new" => accept(Zero("Stmt")).panic /\ accept(Zero("Stmt")).slots = <<>>
    /\ call.op = "Decl" /\ call.of \in Nodes(ast) => ~call.panic /\ call.list # <<Nil>>
    /\ fault # "resolver"

\* C18: Decl() has been called on a union node with no arm populated.
C18_NoArmPanicked ==
    /\ call.op = "Decl" /\ Populated(call.of) = {}
    /\ call.of \notin Nodes(ast)
    /\ call.panic

\* The typed traversal so far got nil from every Visitor method, as it does
\* from the DefaultVisitor.
AllNil == mode = "typed" /\ \A i \in DOMAIN trace : trace[i].returned = "nil"

\* C19: a typed traversal of a parsed tree whose Visitor methods all return
\* nil is never ended by a panic, calls one Visitor method once for each node
\* and for nothing else, a parent before its children, and returns nil with
\* every node of the tree visited.
C19_DefaultTraversalTotal ==
    AllNil =>
        /\ fault = "none"
        /\ ret \in {"none", "nil"}
        /\ VisitedPaths \subseteq Paths(ast)
        /\ \A i, j \in DOMAIN trace : trace[i].path = trace[j].path => i = j
        /\ \A i \in DOMAIN trace :
              /\ trace[i].method # ""
              /\ trace[i].path # <<>> =>
                    \E j \in 1..(i - 1) : trace[j].path = Parent(trace[i].path)
        /\ Ended => VisitedPaths = Paths(ast)

\* C19, a case that goes well: the traversal of a class with a type
\* parameter, a variable and an initialiser, and of a function with an if
\* statement that has an else block, has returned nil with every node visited.
C19_WholeTreeVisited ==
    /\ AllNil /\ Ended /\ fault = "none" /\ ret = "nil"
    /\ VisitedPaths = Paths(ast)
    /\ \E i \in DOMAIN trace : trace[i].field = "Else"
    /\ \E i \in DOMAIN trace : trace[i].kind = "InitialiserDecl"

\* A traversal that has been started and has neither returned nor panicked.
Underway(t) == t.mode # "idle" /\ t.fault = "none" /\ ~(t.stack = <<>> /\ t.ret # "none")

\* What a traversal records whatever else runs: no node twice, and a node
\* after its parent.
Orderly(tr) ==
    /\ \A i, j \in DOMAIN tr : tr[i].path = tr[j].path => i = j
    /\ \A i \in DOMAIN tr :
          tr[i].path # <<>> => \E j \in 1..(i - 1) : tr[j].path = Parent(tr[i].path)

\* C20: with two traversals of one tree run by turns, the tree stays as the
\* parse left it, a step of one traversal leaves the other's stack, record
\* and result as they were, each records its nodes in the order it does
\* alone, and neither is kept from returning by the other: a traversal under
\* way is never left behind by the end of the program.
C20_TraversalsIndependent ==
    /\ [][phase = "parsed" => ast' = ast]_vars
    /\ [][other' # other =>
            /\ other' = Traversal(mode, stack, ret, trace, fault, prunes)
            /\ other = Traversal(mode', stack', ret', trace', fault', prunes')]_vars
    /\ [](Orderly(trace) /\ Orderly(other.trace))
    /\ [](fault # "none" => ~Underway(other))

\* C20, a case that goes well: two traversals of one tree, run by turns,
\* have both returned, one with every node visited and nil, the other with
\* the error its visitor gave at a node below the root.
C20_BothReturned ==
    /\ Ended /\ fault = "none" /\ ret = "nil" /\ VisitedPaths = Paths(ast)
    /\ other.mode # "idle" /\ other.fault = "none" /\ other.stack = <<>>
    /\ other.ret \in Errors
    /\ Len(other.trace) >= 2 /\ Len(other.trace) < Len(trace)

\* C22: a typed traversal never has TerminateRecursion as its result: what
\* Visit returns is nil or an error that one of the Visitor methods returned,
\* at the root as at any other node.
C22_SentinelNeverReturned ==
    mode = "typed" =>
        /\ ret # TerminateRecursion
        /\ ret \in {"none", "nil"}
              \/ \E i \in DOMAIN trace : trace[i].returned = ret /\ ret \in Errors

\* C22: the Visitor method of the root has returned TerminateRecursion, and
\* Visit has returned nil with the root alone visited.
C22_RootPruned ==
    /\ mode = "typed" /\ Ended /\ fault = "none" /\ ret = "nil"
    /\ Len(trace) = 1 /\ trace[1].path = <<>>
    /\ trace[1].returned = TerminateRecursion

\* Where the root's repetition stands when the parse fails: after the
\* declarations that matched.
RECURSIVE ChoicePoint(_, _, _)
ChoicePoint(ts, tab, c) ==
    IF c <= Len(ts) /\ tab["RootDecl", c].st = "ok" THEN ChoicePoint(ts, tab, tab["RootDecl", c].pos)
    ELSE c

\* How many modifiers stand at c.
ModifiersAt(ts, c) ==
    CHOOSE n \in 0..Len(ts) + 1 - c :
        /\ \A k \in 0..n - 1 : ts[c + k] \in Modifier
        /\ Peek(ts, c + n) \notin Modifier

\* The alternatives of a declaration at the root, and how far the k-th gets
\* from m before it fails.
RootAlternatives == RootDecl_grammar.ns[2].ns

\* The furthest token at which an attempt of node n from cursor i fails,
\* whether the failure ends the parse or is passed over by an optional part,
\* a repetition or a later alternative; -1 if no attempt fails. It follows
\* the attempts the descent makes, each one's outcome read from the parse.
RECURSIVE Furthest(_, _, _, _)
RECURSIVE FurthestSeq(_, _, _, _, _)
RECURSIVE FurthestAlt(_, _, _, _, _)
RECURSIVE FurthestRep(_, _, _, _)

Later(p, q) == IF p >= q THEN p ELSE q

FurthestSeq(ns, k, ts, cur, tab) ==
    LET r == ParseNode(ns[k], ts, cur, tab)
        f == Furthest(ns[k], ts, cur, tab) IN
    IF r.st = "ok"
    THEN IF k = Len(ns) THEN f ELSE Later(f, FurthestSeq(ns, k + 1, ts, r.pos, tab))
    ELSE IF r.st = "no" /\ k > 1 THEN Later(f, cur)
    ELSE f

FurthestAlt(ns, k, ts, i, tab) ==
    LET r == ParseNode(ns[k], ts, i, tab)
        f == Furthest(ns[k], ts, i, tab) IN
    IF k = Len(ns) \/ Settled(r) \/ (r.st = "err" /\ Stop(i, r.pos)) THEN f
    ELSE Later(f, FurthestAlt(ns, k + 1, ts, i, tab))

FurthestRep(n, ts, cur, tab) ==
    LET r == ParseNode(n, ts, cur, tab)
        f == Furthest(n, ts, cur, tab) IN
    IF r.st = "ok" THEN Later(f, FurthestRep(n, ts, r.pos, tab)) ELSE f

Furthest(n, ts, i, tab) ==
    CASE n.op \in {"lit", "tok"} -> -1
      [] n.op = "struct" -> Furthest(Grammar(n.t), ts, i, tab)
      [] n.op \in {"cap", "opt"} -> Furthest(n.n, ts, i, tab)
      [] n.op = "seq" -> FurthestSeq(n.ns, 1, ts, i, tab)
      [] n.op = "alt" -> FurthestAlt(n.ns, 1, ts, i, tab)
      [] n.op = "rep" -> FurthestRep(n.n, ts, i, tab)

Reach(ts, tab, m, k) == Later(m, Furthest(RootAlternatives[k], ts, m, tab))

\* C21: let followed at once by ; fails to parse, and the failure reported
\* is at the ; and expects an identifier; and the failure reported for any
\* text that lexes and fails to parse is as far on as the alternative of the
\* failing declaration that got furthest, not where its first alternative,
\* class, failed.
C21_DeepestFailureReported ==
    (phase = "parsed" /\ Lexed(src) = src) =>
        /\ (\E i \in DOMAIN src : src[i] = "let" /\ Peek(src, i + 1) = ";") => err = "parse error"
        /\ err # "nil" =>
              LET tab == Table(src, MaxDepth)
                  m == ChoicePoint(src, tab, 1) + ModifiersAt(src, ChoicePoint(src, tab, 1))
              IN /\ (Peek(src, m) = "let" /\ Peek(src, m + 1) = ";") =>
                       report = Report(m + 1, "Ident")
                 /\ \A k \in DOMAIN RootAlternatives : report.at >= Reach(src, tab, m, k)
                 /\ \E k \in DOMAIN RootAlternatives : report.at = Reach(src, tab, m, k)

\* C21: let ; has failed to parse, with the failure reported at the ;, past
\* where the class alternative failed.
C21_LetWithoutName ==
    /\ phase = "parsed" /\ err = "parse error"
    /\ src = <<"let", ";">>
    /\ report = Report(2, "Ident")
    /\ Reach(src, Table(src, MaxDepth), 1, 1) = 1

\* The names a node declares.
NamesOf(n) ==
    CASE n.kind \in {"VarDeclAsgn", "FuncDecl", "CaseDecl"} -> {n.Name}
      [] n.kind = "TypeDecl" -> {n.Type}
      [] n.kind = "Parameters" -> {n.Names[k] : k \in DOMAIN n.Names}
      [] OTHER -> {}

====
